---- MODULE Spec2Model ----
(***************************************************************************)
(* LawBot: the registration / three-stage analysis conversation of a       *)
(* Telegram bot.  The model holds the Firestore collection 'users', the    *)
(* process-wide conversation_history dict, the ConversationHandler's       *)
(* per-(chat, user) state, and one action per handler registered in        *)
(* main.py.  Texts are sequences of one-character strings so that          *)
(* str.strip() and str.endswith() are computed, not assumed.               *)
(***************************************************************************)
EXTENDS Integers, Sequences, FiniteSets, TLC

VARIABLES
    db,                    \* Firestore 'users': user_id -> document (a dict of fields)
    conversation_history,  \* utils.conversation_store.conversation_history: user_id -> turns
    conversations,         \* ConversationHandler state: <<chat_id, user_id>> -> int
    shown,                 \* chat_id -> callback_data of the inline buttons sent to the chat
    store_up,              \* FALSE while Firestore calls raise
    last,                  \* what the most recent update did (observation only)
    issued,                \* observation: the codes mailed to a user awaiting verification
    trail,                 \* observation: how far a user got since the last case submission
    exchanged,             \* observation: the turns of a user's current visit to a stage
    update_queue,          \* Application.update_queue: the updates not yet fetched
    running,               \* the handler coroutine that holds the event loop, if any
    generator              \* a call of generate_verification_code: its argument, its join

vars == <<db, conversation_history, conversations, shown, store_up, last, issued, trail,
          exchanged, update_queue, running, generator>>

(***************************************************************************)
(* Bounds of the model.                                                    *)
(***************************************************************************)
MaxTurns == 3       \* longest conversation_history kept per user
MaxResends == 2     \* resends counted per verification episode
MaxQueue == 2       \* updates waiting in Application.update_queue
MaxLength == 3      \* longest code generated with every digit tried at every position

Users == {"u1"}
MainChat == "c1"                \* the user's private chat with the bot
SideChat == "c2"                \* another chat the same user and the bot are in
OtherUsers == {"u2"}            \* a second user of the bot
OtherChat == "c3"               \* the second user's private chat with the bot
Accounts == Users \cup OtherUsers
Chats == {MainChat, SideChat, OtherChat}
Keys  == Chats \X Accounts
PrivateChat(u) == IF u \in Users THEN MainChat ELSE OtherChat

(***************************************************************************)
(* Conversation states (the ints the handlers return) and STATE_MAP.       *)
(***************************************************************************)
STARTED == 0
AWAITING_EMAIL == 1
AWAITING_VERIFICATION_CODE == 2
VERIFIED == 3
AWAITING_CASE == 4
STAGE_1 == 5
AWAITING_ISSUES == 6
STAGE_2 == 7
AWAITING_ASPECTS == 8
STAGE_3 == 9
END == -1

StateNames == <<"STARTED", "AWAITING_EMAIL", "AWAITING_VERIFICATION_CODE", "VERIFIED",
                "AWAITING_CASE", "STAGE_1", "AWAITING_ISSUES", "STAGE_2",
                "AWAITING_ASPECTS", "STAGE_3">>

STATE_MAP(name) ==
    IF \E i \in 1..Len(StateNames) : StateNames[i] = name
    THEN <<(CHOOSE i \in 1..Len(StateNames) : StateNames[i] = name) - 1>>
    ELSE <<>>

\* A handler's return value: <<>> is Python's None, <<s>> is the int s.
RetNone == <<>>
Ret(s) == <<s>>

(***************************************************************************)
(* Texts.                                                                  *)
(***************************************************************************)
None == <<"None">>            \* Python None / Firestore null in a text field
NoState == "None"             \* None where a state name is expected
Whitespace == {" ", "\n"}

RECURSIVE LStrip(_)
LStrip(s) == IF s # <<>> /\ Head(s) \in Whitespace THEN LStrip(Tail(s)) ELSE s

RECURSIVE RStrip(_)
RStrip(s) ==
    IF s # <<>> /\ s[Len(s)] \in Whitespace THEN RStrip(SubSeq(s, 1, Len(s) - 1)) ELSE s

\* str.strip()
Strip(s) == RStrip(LStrip(s))

\* str.endswith(suffix)
EndsWith(s, suffix) ==
    /\ Len(s) >= Len(suffix)
    /\ SubSeq(s, Len(s) - Len(suffix) + 1, Len(s)) = suffix

\* Python truthiness of a str-or-None value
Truthy(s) == s # None /\ s # <<>>

EHU == <<"@", "e", "h", "u", ".", "l", "t">>
STUDENT_EHU == <<"@", "s", "t", "u", "d", "e", "n", "t", ".", "e", "h", "u", ".", "l", "t">>
GMAIL == <<"@", "g", "m", "a", "i", "l", ".", "c", "o", "m">>

\* free text the user sends: Blank \cup {one text with content}
Blank == {<<>>, <<" ">>}
CaseTexts == Blank \cup {<<" ", "c", "\n">>}
IssuesTexts == Blank \cup {<<"i", " ">>}
AspectsTexts == Blank \cup {<<" ", "p">>}
StageTexts == Blank \cup {<<" ", "m", " ">>}

\* what the user types when asked for an e-mail address
EmailTexts == {<<" ", "s">> \o STUDENT_EHU \o <<" ">>, <<"f">> \o GMAIL,
               EHU \o <<"x">>, <<>>}

(***************************************************************************)
(* generate_verification_code: CodeLength characters, each a digit.        *)
(***************************************************************************)
CodeLength == 6
Digits == <<"0", "1", "2", "3", "4", "5", "6", "7", "8", "9">>

\* the values of ''.join(random.choice('0123456789') ...) the model draws from
SampleDigits == {"0", "7"}
generate_verification_code(length) ==
    {[i \in 1..length |-> d] : d \in SampleDigits}

\* generate_verification_code(length) taken step by step: the generator expression
\* yields one random.choice('0123456789') for each element of range(length), ''.join
\* puts them together, and the string is returned
NotCalled == [length |-> 0, code |-> <<>>, returned |-> FALSE]
Called(length) == [length |-> length, code |-> <<>>, returned |-> FALSE]

\* for _ in range(length), with one element too few
MoreInRange_one_short(g) == Len(g.code) < g.length - 1

\* for _ in range(length): another element is due
MoreInRange(g) == Len(g.code) < g.length

\* what the user types when asked for the code
CodeTexts ==
    generate_verification_code(CodeLength)
        \cup {<<" ">> \o c \o <<"\n">> : c \in generate_verification_code(CodeLength)}
        \cup {<<"a">>, <<>>}

(***************************************************************************)
(* database/database_support.py.  d is the collection, up says whether the *)
(* Firestore call succeeds; every function swallows the exception.         *)
(***************************************************************************)
EmptyMap == [x \in {} |-> x]      \* an empty dict / a collection with no document

Exists(d, u) == u \in DOMAIN d

Put(d, u, doc) == [x \in DOMAIN d \cup {u} |-> IF x = u THEN doc ELSE d[x]]

\* DocumentReference.update(fields): raises NotFound when the document is missing
Update(d, up, u, fields) ==
    IF up /\ Exists(d, u) THEN Put(d, u, fields @@ d[u]) ELSE d

\* DocumentReference.update with firestore.DELETE_FIELD for the names in gone
Without(doc, gone) == [f \in DOMAIN doc \ gone |-> doc[f]]

\* doc.to_dict().get(field)
Field(d, up, u, f) ==
    IF up /\ Exists(d, u) /\ f \in DOMAIN d[u] THEN d[u][f] ELSE None

\* insert_user writing the state registration leads to instead of the one it is given
insert_user_awaiting_email(d, up, u, email, verification_code, conversation_state) ==
    IF up
    THEN Put(d, u, [email |-> email, verification_code |-> verification_code,
                    conversation_state |-> "AWAITING_EMAIL"]
                   @@ (IF Exists(d, u) THEN d[u] ELSE EmptyMap))
    ELSE d

insert_user(d, up, u, email, verification_code, conversation_state) ==
    IF up
    THEN Put(d, u, [email |-> email, verification_code |-> verification_code,
                    conversation_state |-> conversation_state]
                   @@ (IF Exists(d, u) THEN d[u] ELSE EmptyMap))
    ELSE d

update_user_email(d, up, u, new_email, verification_code) ==
    Update(d, up, u, [email |-> new_email, verification_code |-> verification_code,
                      conversation_state |-> "AWAITING_VERIFICATION_CODE"])

\* update_user_conversation_state written with set(merge=True): it creates the document
update_user_conversation_state_upsert(d, up, u, conversation_state) ==
    IF up
    THEN Put(d, u, [conversation_state |-> conversation_state]
                   @@ (IF Exists(d, u) THEN d[u] ELSE EmptyMap))
    ELSE d

update_user_conversation_state(d, up, u, conversation_state) ==
    Update(d, up, u, [conversation_state |-> conversation_state])

\* reset_user_registration deleting the state with the other fields
reset_user_registration_drops_state(d, up, u) ==
    IF up /\ Exists(d, u)
    THEN Put(d, u, Without(d[u], {"email", "verification_code", "conversation_state",
                                  "case_data", "issues", "aspects"}))
    ELSE d

\* reset_user_registration clearing the registration fields only
reset_user_registration_keeps_case(d, up, u) ==
    IF up /\ Exists(d, u)
    THEN Put(d, u, [conversation_state |-> "STARTED"]
                   @@ Without(d[u], {"email", "verification_code"}))
    ELSE d

reset_user_registration(d, up, u) ==
    IF up /\ Exists(d, u)
    THEN Put(d, u, [conversation_state |-> "STARTED"]
                   @@ Without(d[u], {"email", "verification_code", "case_data",
                                     "issues", "aspects"}))
    ELSE d

get_conversation_state(d, up, u) ==
    IF up /\ Exists(d, u) /\ "conversation_state" \in DOMAIN d[u]
    THEN d[u].conversation_state
    ELSE NoState

get_user_email(d, up, u) == Field(d, up, u, "email")

user_exists(d, up, u) == up /\ Exists(d, u)

get_verification_code(d, up, u) == Field(d, up, u, "verification_code")

delete_user_from_db(d, up, u) ==
    IF up THEN [x \in DOMAIN d \ {u} |-> d[x]] ELSE d

update_user_case_data(d, up, u, case_data) == Update(d, up, u, [case_data |-> case_data])

get_user_case_data(d, up, u) == Field(d, up, u, "case_data")

update_user_issues(d, up, u, issues) == Update(d, up, u, [issues |-> issues])

get_user_issues(d, up, u) == Field(d, up, u, "issues")

update_user_aspects(d, up, u, aspects) == Update(d, up, u, [aspects |-> aspects])

get_user_aspects(d, up, u) == Field(d, up, u, "aspects")

(***************************************************************************)
(* What a handler does: the collection and the history dict it leaves,     *)
(* its return value, and the calls it made to its collaborators.           *)
(***************************************************************************)
Msg(tag) == [msg |-> tag, text |-> <<>>]

Result(d, h, ret, writes, mails, calls, replies, buttons) ==
    [db |-> d, history |-> h, ret |-> ret, writes |-> writes, mails |-> mails,
     calls |-> calls, replies |-> replies, buttons |-> buttons]

\* mail.mail_confirmation.send_email(recipient_email, verification_code): one SMTP
\* dispatch, which raises when ok is FALSE
send_email(recipient_email, verification_code, ok) ==
    [to |-> recipient_email, code |-> verification_code, ok |-> ok]

Registration == {"STARTED", "AWAITING_EMAIL", "AWAITING_VERIFICATION_CODE"}
Stages == {"STAGE_1", "STAGE_2", "STAGE_3"}

(***************************************************************************)
(* handlers/global_handlers.py                                             *)
(***************************************************************************)
handle_new_user_registration(d, h, up, u) ==
    Result(insert_user(d, up, u, None, None, "STARTED"), h, Ret(STARTED), 1, <<>>, <<>>,
           <<Msg("welcome_register")>>, {"register"})

handle_started_state(d, h) ==
    Result(d, h, Ret(STARTED), 0, <<>>, <<>>, <<Msg("already_started")>>, {"register"})

handle_awaiting_email_state(d, h) ==
    Result(d, h, Ret(AWAITING_EMAIL), 0, <<>>, <<>>, <<Msg("enter_email")>>,
           {"cancel_registration"})

handle_awaiting_verification_state(d, h) ==
    Result(d, h, Ret(AWAITING_VERIFICATION_CODE), 0, <<>>, <<>>, <<Msg("enter_code")>>,
           {"resend_verification", "cancel_registration"})

handle_verified_state(d, h) ==
    Result(d, h, Ret(VERIFIED), 0, <<>>, <<>>, <<Msg("verified_use_menu")>>, {})

handle_registration_state(d, h, up, u) ==
    Result(d, h, STATE_MAP(get_conversation_state(d, up, u)), 0, <<>>, <<>>,
           <<Msg("complete_registration")>>, {})

\* handle_existing_user taking a state it does not know for STARTED
handle_existing_user_coercing(d, h, conversation_state) ==
    CASE conversation_state = "AWAITING_EMAIL" -> handle_awaiting_email_state(d, h)
      [] conversation_state = "AWAITING_VERIFICATION_CODE" ->
             handle_awaiting_verification_state(d, h)
      [] conversation_state \in {"VERIFIED"} \cup Stages -> handle_verified_state(d, h)
      [] OTHER -> handle_started_state(d, h)

handle_existing_user(d, h, conversation_state) ==
    CASE conversation_state = "STARTED" -> handle_started_state(d, h)
      [] conversation_state = "AWAITING_EMAIL" -> handle_awaiting_email_state(d, h)
      [] conversation_state = "AWAITING_VERIFICATION_CODE" ->
             handle_awaiting_verification_state(d, h)
      [] conversation_state \in {"VERIFIED"} \cup Stages -> handle_verified_state(d, h)
      [] OTHER -> Result(d, h, Ret(END), 0, <<>>, <<>>, <<Msg("unexpected_state")>>, {})

start(d, h, up, u) ==
    IF ~user_exists(d, up, u)
    THEN handle_new_user_registration(d, h, up, u)
    ELSE IF get_conversation_state(d, up, u) = NoState
         THEN Result(d, h, Ret(END), 0, <<>>, <<>>, <<Msg("error")>>, {})
         ELSE handle_existing_user(d, h, get_conversation_state(d, up, u))

delete_user(d, h, up, u) ==
    Result(delete_user_from_db(d, up, u), h, Ret(END), 1, <<>>, <<>>,
           <<Msg("data_deleted")>>, {})

(***************************************************************************)
(* handlers/registration.py                                                *)
(***************************************************************************)
register(d, h, up, u) ==
    Result(update_user_conversation_state(d, up, u, "AWAITING_EMAIL"), h,
           Ret(AWAITING_EMAIL), 1, <<>>, <<>>, <<Msg("enter_email")>>,
           {"cancel_registration"})

ValidEmail(email) == EndsWith(email, EHU) \/ EndsWith(email, STUDENT_EHU)

\* receive_email persisting the address as typed, not stripped
receive_email_unstripped(d, h, up, u, text, verification_code, mail_ok) ==
    LET email == Strip(text) IN
    IF ~ValidEmail(email)
    THEN Result(d, h, Ret(AWAITING_EMAIL), 0, <<>>, <<>>, <<Msg("invalid_email")>>,
                {"cancel_registration"})
    ELSE LET d2 == update_user_email(d, up, u, text, verification_code)
             mail == send_email(email, verification_code, mail_ok)
         IN IF mail_ok
            THEN Result(d2, h, Ret(AWAITING_VERIFICATION_CODE), 1, <<mail>>, <<>>,
                        <<Msg("code_sent")>>,
                        {"resend_verification", "cancel_registration"})
            ELSE Result(d2, h, Ret(END), 1, <<mail>>, <<>>, <<Msg("mail_error")>>, {})

receive_email(d, h, up, u, text, verification_code, mail_ok) ==
    LET email == Strip(text) IN
    IF ~ValidEmail(email)
    THEN Result(d, h, Ret(AWAITING_EMAIL), 0, <<>>, <<>>, <<Msg("invalid_email")>>,
                {"cancel_registration"})
    ELSE LET d2 == update_user_email(d, up, u, email, verification_code)
             mail == send_email(email, verification_code, mail_ok)
         IN IF mail_ok
            THEN Result(d2, h, Ret(AWAITING_VERIFICATION_CODE), 1, <<mail>>, <<>>,
                        <<Msg("code_sent")>>,
                        {"resend_verification", "cancel_registration"})
            ELSE Result(d2, h, Ret(END), 1, <<mail>>, <<>>, <<Msg("mail_error")>>, {})

\* verify_code discarding the persisted code after a wrong attempt
verify_code_one_attempt(d, h, up, u, text) ==
    LET entered_code == Strip(text)
        correct_code == get_verification_code(d, up, u)
    IN IF correct_code = None
       THEN Result(d, h, Ret(END), 0, <<>>, <<>>, <<Msg("code_unavailable")>>, {})
       ELSE IF entered_code = correct_code
            THEN Result(update_user_conversation_state(d, up, u, "VERIFIED"), h,
                        Ret(VERIFIED), 1, <<>>, <<>>, <<Msg("email_verified")>>, {})
            ELSE Result(Update(d, up, u, [verification_code |-> None]), h,
                        Ret(AWAITING_VERIFICATION_CODE), 1, <<>>, <<>>,
                        <<Msg("incorrect_code")>>,
                        {"resend_verification", "cancel_registration"})

verify_code(d, h, up, u, text) ==
    LET entered_code == Strip(text)
        correct_code == get_verification_code(d, up, u)
    IN IF correct_code = None
       THEN Result(d, h, Ret(END), 0, <<>>, <<>>, <<Msg("code_unavailable")>>, {})
       ELSE IF entered_code = correct_code
            THEN Result(update_user_conversation_state(d, up, u, "VERIFIED"), h,
                        Ret(VERIFIED), 1, <<>>, <<>>, <<Msg("email_verified")>>, {})
            ELSE Result(d, h, Ret(AWAITING_VERIFICATION_CODE), 0, <<>>, <<>>,
                        <<Msg("incorrect_code")>>,
                        {"resend_verification", "cancel_registration"})

resend_verification(d, h, up, u, verification_code, mail_ok) ==
    LET email == get_user_email(d, up, u)
        mail == send_email(email, verification_code, mail_ok)
    IN IF get_conversation_state(d, up, u) = "VERIFIED"
       THEN Result(d, h, Ret(END), 0, <<>>, <<>>, <<Msg("already_verified")>>, {})
       ELSE IF mail_ok
            THEN Result(update_user_email(d, up, u, email, verification_code), h,
                        Ret(AWAITING_VERIFICATION_CODE), 1, <<mail>>, <<>>,
                        <<Msg("code_resent")>>,
                        {"resend_verification", "cancel_registration"})
            ELSE Result(d, h, Ret(END), 0, <<mail>>, <<>>, <<Msg("resend_failed")>>, {})

cancel_registration(d, h, up, u) ==
    Result(reset_user_registration(d, up, u), h, Ret(STARTED), 1, <<>>, <<>>,
           <<Msg("registration_canceled"), Msg("welcome_register")>>, {"register"})

(***************************************************************************)
(* handlers/conversation.py                                                *)
(***************************************************************************)
MenuButtons(conversation_state) ==
    {"start_stage_1"}
        \cup (IF conversation_state \in {"STAGE_1", "STAGE_2"} THEN {"start_stage_2"} ELSE {})
        \cup (IF conversation_state = "STAGE_2" THEN {"start_stage_3"} ELSE {})

send_main_menu(d, h, up, u) ==
    LET conversation_state == get_conversation_state(d, up, u) IN
    IF conversation_state \notin {"VERIFIED", "STAGE_1", "STAGE_2"}
    THEN Result(d, h, RetNone, 0, <<>>, <<>>, <<Msg("complete_registration")>>, {})
    ELSE Result(d, h, RetNone, 0, <<>>, <<>>, <<Msg("choose_option")>>,
                MenuButtons(conversation_state))

go_to_first_stage(d, h, up, u) ==
    Result(update_user_conversation_state(d, up, u, "AWAITING_CASE"), h,
           Ret(AWAITING_CASE), 1, <<>>, <<>>, <<Msg("enter_case")>>, {})

\* go_to_second_stage without its eligibility check
go_to_second_stage_unguarded(d, h, up, u) ==
    Result(update_user_conversation_state(d, up, u, "AWAITING_ISSUES"), h,
           Ret(AWAITING_ISSUES), 1, <<>>, <<>>, <<Msg("enter_issues")>>, {})

go_to_second_stage(d, h, up, u) ==
    IF get_conversation_state(d, up, u) # "STAGE_1"
    THEN Result(d, h, Ret(STAGE_1), 0, <<>>, <<>>, <<Msg("complete_stage_1")>>, {})
    ELSE Result(update_user_conversation_state(d, up, u, "AWAITING_ISSUES"), h,
                Ret(AWAITING_ISSUES), 1, <<>>, <<>>, <<Msg("enter_issues")>>, {})

go_to_third_stage(d, h, up, u) ==
    IF get_conversation_state(d, up, u) # "STAGE_2"
    THEN Result(d, h, Ret(STAGE_2), 0, <<>>, <<>>, <<Msg("complete_stage_2")>>, {})
    ELSE Result(update_user_conversation_state(d, up, u, "AWAITING_ASPECTS"), h,
                Ret(AWAITING_ASPECTS), 1, <<>>, <<>>, <<Msg("enter_aspects")>>, {})

\* the reset emptying the dict's every entry
ClearHistory_of_everyone(h, u) == IF u \in DOMAIN h THEN [x \in DOMAIN h |-> <<>>] ELSE h

\* "if user_id in conversation_history: conversation_history[user_id] = []"
ClearHistory(h, u) == IF u \in DOMAIN h THEN [h EXCEPT ![u] = <<>>] ELSE h

\* str.lower() on the letters the sample file names use
LowerChar(c) ==
    CASE c = "P" -> "p" [] c = "D" -> "d" [] c = "F" -> "f" [] c = "O" -> "o"
      [] c = "C" -> "c" [] c = "X" -> "x" [] OTHER -> c
Lower(s) == [i \in 1..Len(s) |-> LowerChar(s[i])]

\* an incoming message: typed text, or a document with what text extraction gives
TextMessage(t) == [document |-> FALSE, text |-> t]
DocumentMessage(name, ok, t) ==
    [document |-> TRUE, file_name |-> name, extract_ok |-> ok, text |-> t]

SampleFileNames == {<<"c", ".", "P", "D", "F">>, <<"c", ".", "d", "o", "c">>,
                    <<"c", ".", "d", "o", "c", "x">>, <<"c", ".", "t", "x", "t">>}
\* extract_text_from_pdf / extract_text_from_doc results (not stripped by the caller)
SampleExtracts == {<<>>, <<"\n">>}
Documents ==
    {DocumentMessage(n, TRUE, t) : n \in SampleFileNames, t \in SampleExtracts}
        \cup {DocumentMessage(n, FALSE, <<>>) : n \in SampleFileNames}

Supported(file_name) ==
    \/ EndsWith(file_name, <<".", "p", "d", "f">>)
    \/ EndsWith(file_name, <<".", "d", "o", "c">>)
    \/ EndsWith(file_name, <<".", "d", "o", "c", "x">>)

\* receive_case leaving the issues of the previous case in place
receive_case_keeps_issues(d, h, up, u, message) ==
    LET h1 == ClearHistory(h, u)
        case_text == IF message.document THEN message.text ELSE Strip(message.text)
    IN IF message.document /\ ~Supported(Lower(message.file_name))
       THEN Result(d, h1, Ret(AWAITING_CASE), 0, <<>>, <<>>, <<Msg("unsupported_file")>>, {})
       ELSE IF message.document /\ ~message.extract_ok
       THEN Result(d, h1, Ret(AWAITING_CASE), 0, <<>>, <<>>, <<Msg("document_error")>>, {})
       ELSE IF case_text = <<>>
       THEN Result(d, h1, Ret(AWAITING_CASE), 0, <<>>, <<>>, <<Msg("no_text")>>, {})
       ELSE Result(update_user_conversation_state(
                       update_user_aspects(
                           update_user_case_data(d, up, u, case_text),
                           up, u, <<>>),
                       up, u, "STAGE_1"),
                   h1, Ret(STAGE_1), 3, <<>>, <<>>, <<Msg("case_received")>>, {})

receive_case(d, h, up, u, message) ==
    LET h1 == ClearHistory(h, u)
        case_text == IF message.document THEN message.text ELSE Strip(message.text)
    IN IF message.document /\ ~Supported(Lower(message.file_name))
       THEN Result(d, h1, Ret(AWAITING_CASE), 0, <<>>, <<>>, <<Msg("unsupported_file")>>, {})
       ELSE IF message.document /\ ~message.extract_ok
       THEN Result(d, h1, Ret(AWAITING_CASE), 0, <<>>, <<>>, <<Msg("document_error")>>, {})
       ELSE IF case_text = <<>>
       THEN Result(d, h1, Ret(AWAITING_CASE), 0, <<>>, <<>>, <<Msg("no_text")>>, {})
       ELSE Result(update_user_conversation_state(
                       update_user_aspects(
                           update_user_issues(
                               update_user_case_data(d, up, u, case_text),
                               up, u, <<>>),
                           up, u, <<>>),
                       up, u, "STAGE_1"),
                   h1, Ret(STAGE_1), 4, <<>>, <<>>, <<Msg("case_received")>>, {})

\* receive_issues keeping the dialogue context of stage 1
receive_issues_keeps_history(d, h, up, u, text) ==
    LET issues_text == Strip(text) IN
    Result(update_user_conversation_state(update_user_issues(d, up, u, issues_text),
                                          up, u, "STAGE_2"),
           h, Ret(STAGE_2), 2, <<>>, <<>>, <<Msg("issues_received")>>, {})

receive_issues(d, h, up, u, text) ==
    LET issues_text == Strip(text) IN
    Result(update_user_conversation_state(update_user_issues(d, up, u, issues_text),
                                          up, u, "STAGE_2"),
           ClearHistory(h, u), Ret(STAGE_2), 2, <<>>, <<>>, <<Msg("issues_received")>>, {})

receive_aspects_keeps_history(d, h, up, u, text) ==
    LET aspects_text == Strip(text) IN
    Result(update_user_conversation_state(update_user_aspects(d, up, u, aspects_text),
                                          up, u, "STAGE_3"),
           h, Ret(STAGE_3), 2, <<>>, <<>>, <<Msg("aspects_received")>>, {})

receive_aspects(d, h, up, u, text) ==
    LET aspects_text == Strip(text) IN
    Result(update_user_conversation_state(update_user_aspects(d, up, u, aspects_text),
                                          up, u, "STAGE_3"),
           ClearHistory(h, u), Ret(STAGE_3), 2, <<>>, <<>>, <<Msg("aspects_received")>>, {})

(***************************************************************************)
(* The model collaborator: openai_client.chat.completions.create(stream=   *)
(* True).  A stream is the fragments (delta.content, <<>> for an empty or  *)
(* missing one) and where it raises: 0 is create() raising, k > 0 is the   *)
(* iteration raising after k fragments, -1 is a stream that ends.          *)
(***************************************************************************)
Stream(fragments, raises) == [fragments |-> fragments, raises |-> raises]
Streams ==
    {Stream(<<>>, -1), Stream(<<<<" ">>, <<>>>>, -1), Stream(<<<<"r">>, <<"s">>>>, -1),
     Stream(<<<<"r">>, <<"s">>>>, 0), Stream(<<<<"r">>, <<"s">>>>, 1)}

RECURSIVE Concat(_)
\* response = ""; for chunk in stream: if delta.content: response += delta.content
Concat(fragments) ==
    IF fragments = <<>> THEN <<>> ELSE Head(fragments) \o Concat(Tail(fragments))

Turn(role, content) == [role |-> role, content |-> content]

\* config.get('SYSTEM_PROMPT_FIRST' / '_SECOND' / '_THIRD')
SYSTEM_PROMPT(n) ==
    CASE n = 1 -> <<"SYSTEM_PROMPT_FIRST">>
      [] n = 2 -> <<"SYSTEM_PROMPT_SECOND">>
      [] OTHER -> <<"SYSTEM_PROMPT_THIRD">>

\* the preamble without the issues
Preamble_without_issues(d, up, u, n) ==
    <<Turn("system", SYSTEM_PROMPT(n)), Turn("user", get_user_case_data(d, up, u))>>
        \o (IF n >= 3 THEN <<Turn("user", get_user_aspects(d, up, u))>> ELSE <<>>)

\* the turns each stage puts before conversation_history[user_id]
Preamble(d, up, u, n) ==
    <<Turn("system", SYSTEM_PROMPT(n)), Turn("user", get_user_case_data(d, up, u))>>
        \o (IF n >= 2 THEN <<Turn("user", get_user_issues(d, up, u))>> ELSE <<>>)
        \o (IF n >= 3 THEN <<Turn("user", get_user_aspects(d, up, u))>> ELSE <<>>)

\* the emptiness check without the strip
EmptyResponse_unstripped(response) == response = <<>>

\* if not response.strip(): raise ValueError
EmptyResponse(response) == Strip(response) = <<>>

StageName(n) == StateNames[STAGE_1 + 2 * (n - 1) + 1]
StageConst(n) == STAGE_1 + 2 * (n - 1)

\* the body the three stage_*_conversation functions share, n the stage
stage_conversation(n, d, h, up, u, text, stream) ==
    LET user_message == Strip(text)
        h1 == IF u \in DOMAIN h THEN h ELSE Put(h, u, <<>>)
        h2 == [h1 EXCEPT ![u] = Append(@, Turn("user", user_message))]
        messages == Preamble(d, up, u, n) \o h2[u]
        raised == stream.raises >= 0 /\ stream.raises <= Len(stream.fragments)
        response == Concat(stream.fragments)
    IN IF user_message = <<>>
       THEN Result(d, h, Ret(StageConst(n)), 0, <<>>, <<>>, <<Msg("empty_message")>>, {})
       ELSE IF get_conversation_state(d, up, u) # StageName(n)
       THEN Result(d, h, Ret(StageConst(n)), 0, <<>>, <<>>, <<Msg("start_stage_first")>>, {})
       ELSE IF raised
       THEN Result(d, h2, Ret(StageConst(n)), 0, <<>>, <<messages>>,
                   <<Msg("processing_error")>>, {})
       ELSE IF EmptyResponse(response)
       THEN Result(d, h2, Ret(StageConst(n)), 0, <<>>, <<messages>>,
                   <<Msg("format_error")>>, {})
       ELSE Result(d, [h2 EXCEPT ![u] = Append(@, Turn("assistant", response))],
                   Ret(StageConst(n)), 0, <<>>, <<messages>>,
                   <<[msg |-> "response", text |-> response]>>, {})

\* stage_one_conversation checking for the wrong stage
stage_one_conversation_wrong_stage(d, h, up, u, text, stream) ==
    stage_conversation(2, d, h, up, u, text, stream)

stage_one_conversation(d, h, up, u, text, stream) ==
    stage_conversation(1, d, h, up, u, text, stream)

stage_two_conversation(d, h, up, u, text, stream) ==
    stage_conversation(2, d, h, up, u, text, stream)

stage_three_conversation(d, h, up, u, text, stream) ==
    stage_conversation(3, d, h, up, u, text, stream)

(***************************************************************************)
(* bot/handlers.py: the drivers of the one-file version of the bot.  Their *)
(* context is context.user_data['conversation_history'], seeded with the   *)
(* system prompt and the persisted texts when absent.                      *)
(***************************************************************************)
BOT_SYSTEM_PROMPT(n) ==
    IF n = 1 THEN <<"legal case analysis">>
    ELSE <<"legal case analysis focusing on aspects of legality and proportionality">>

bot_Seed(d, up, u, n) ==
    <<Turn("system", BOT_SYSTEM_PROMPT(n)), Turn("user", get_user_case_data(d, up, u))>>
        \o (IF n >= 2 THEN <<Turn("user", get_user_issues(d, up, u))>> ELSE <<>>)
        \o (IF n >= 3 THEN <<Turn("user", get_user_aspects(d, up, u))>> ELSE <<>>)

\* the longest seed
SeedTurns == 4

\* the body the three drivers share: n the stage, next the state returned at the end
bot_stage_conversation(n, next, d, h, up, u, text, stream) ==
    LET user_message == Strip(text)
        h1 == IF u \in DOMAIN h THEN h ELSE Put(h, u, bot_Seed(d, up, u, n))
        h2 == [h1 EXCEPT ![u] = Append(@, Turn("user", user_message))]
        messages == h2[u]
        raised == stream.raises >= 0 /\ stream.raises <= Len(stream.fragments)
        response == Concat(stream.fragments)
    IN IF get_conversation_state(d, up, u) # StageName(n)
       THEN Result(d, h, RetNone, 0, <<>>, <<>>, <<Msg("start_stage_first")>>, {})
       ELSE IF raised \/ EmptyResponse(response)
       THEN Result(d, h2, Ret(next), 0, <<>>, <<messages>>, <<Msg("processing_error")>>, {})
       ELSE Result(d, [h2 EXCEPT ![u] = Append(@, Turn("assistant", response))],
                   Ret(next), 0, <<>>, <<messages>>,
                   <<[msg |-> "response", text |-> response]>>, {})

bot_stage_one_conversation(d, h, up, u, text, stream) ==
    bot_stage_conversation(1, STAGE_1, d, h, up, u, text, stream)

bot_stage_two_conversation(d, h, up, u, text, stream) ==
    bot_stage_conversation(2, STAGE_2, d, h, up, u, text, stream)

\* return STAGE_2 at the end of stage_three_conversation
bot_stage_three_conversation(d, h, up, u, text, stream) ==
    bot_stage_conversation(3, STAGE_2, d, h, up, u, text, stream)

(***************************************************************************)
(* global_message_handler: the MessageHandler registered after the         *)
(* ConversationHandler; it dispatches on the persisted state.              *)
(***************************************************************************)
\* the function process_message_by_state picks for a persisted state
StateHandler(conversation_state) ==
    CASE conversation_state \in Registration -> "handle_registration_state"
      [] conversation_state = "VERIFIED" -> "handle_verified_state"
      [] conversation_state = "STAGE_1" -> "stage_one_conversation"
      [] conversation_state = "STAGE_2" -> "stage_two_conversation"
      [] conversation_state = "STAGE_3" -> "stage_three_conversation"
      [] OTHER -> "none"

process_message_by_state(d, h, up, u, conversation_state, text, stream) ==
    LET handler == StateHandler(conversation_state) IN
    CASE handler = "handle_registration_state" -> handle_registration_state(d, h, up, u)
      [] handler = "handle_verified_state" -> handle_verified_state(d, h)
      [] handler = "stage_one_conversation" ->
             stage_one_conversation(d, h, up, u, text, stream)
      [] handler = "stage_two_conversation" ->
             stage_two_conversation(d, h, up, u, text, stream)
      [] handler = "stage_three_conversation" ->
             stage_three_conversation(d, h, up, u, text, stream)
      [] OTHER -> Result(d, h, RetNone, 0, <<>>, <<>>,
                         <<Msg("unexpected_state"), Msg("error")>>, {})

global_message_handler(d, h, up, u, text, stream) ==
    IF ~user_exists(d, up, u)
    THEN Result(d, h, RetNone, 0, <<>>, <<>>, <<Msg("use_start")>>, {})
    ELSE IF get_conversation_state(d, up, u) = NoState
         THEN Result(d, h, RetNone, 0, <<>>, <<>>, <<Msg("error")>>, {})
         ELSE process_message_by_state(d, h, up, u, get_conversation_state(d, up, u),
                                       text, stream)

\* the function that ends up handling a text that reaches global_message_handler
GlobalTarget(d, up, u) ==
    IF ~user_exists(d, up, u) \/ get_conversation_state(d, up, u) = NoState
    THEN "none"
    ELSE StateHandler(get_conversation_state(d, up, u))

(***************************************************************************)
(* main.py: the ConversationHandler (per chat and user, allow_reentry).    *)
(***************************************************************************)
\* states[s]: the handler of a text message in state s
TextHandler(s) ==
    CASE s = AWAITING_EMAIL -> "receive_email"
      [] s = AWAITING_VERIFICATION_CODE -> "verify_code"
      [] s = AWAITING_CASE -> "receive_case"
      [] s = STAGE_1 -> "stage_one_conversation"
      [] s = AWAITING_ISSUES -> "receive_issues"
      [] s = STAGE_2 -> "stage_two_conversation"
      [] s = AWAITING_ASPECTS -> "receive_aspects"
      [] OTHER -> "none"

\* states[s] and fallbacks: the callback_data handled in state s ("register" is an
\* entry point, handled in every state and without one)
Callbacks(s) ==
    {"cancel_registration"}
        \cup (IF s = AWAITING_VERIFICATION_CODE THEN {"resend_verification"} ELSE {})
        \cup (IF s \in {VERIFIED, STAGE_1, STAGE_2, STAGE_3} THEN {"start_stage_1"} ELSE {})
        \cup (IF s \in {STAGE_1, STAGE_2, STAGE_3} THEN {"start_stage_2"} ELSE {})
        \cup (IF s \in {STAGE_2, STAGE_3} THEN {"start_stage_3"} ELSE {})

InConversation(key) == key \in DOMAIN conversations

\* the handler the ConversationHandler finds for a text message of key
RoutedText(key) ==
    IF InConversation(key) THEN TextHandler(conversations[key]) ELSE "none"

\* a press of an inline button the chat holds, handled in the key's state
Pressed(c, u, data) ==
    /\ data \in shown[c]
    /\ InConversation(<<c, u>>)
    /\ data \in Callbacks(conversations[<<c, u>>])

\* ConversationHandler._update_state
UpdateState(convs, key, new_state) ==
    IF new_state = RetNone THEN convs
    ELSE IF new_state = Ret(END) THEN [k \in DOMAIN convs \ {key} |-> convs[k]]
    ELSE Put(convs, key, new_state[1])

NoMessage == TextMessage(None)
NoStream == Stream(<<>>, -1)

(***************************************************************************)
(* Observations kept for the properties; no handler reads them.            *)
(***************************************************************************)
\* the persisted conversation_state of u ("None" without a document)
Persisted(d, u) == get_conversation_state(d, TRUE, u)

NoCodes == [earlier |-> {}, latest |-> None, resends |-> 0]

\* the codes mailed while the user awaits verification: latest is the one the most
\* recent successful dispatch carried, earlier the ones mailed before it
NextIssued(i, op, r, u) ==
    IF Persisted(r.db, u) # "AWAITING_VERIFICATION_CODE" THEN NoCodes
    ELSE IF op \in {"receive_email", "resend_verification"} /\ r.mails # <<>>
    THEN LET first == op = "receive_email"
             was == IF first THEN NoCodes ELSE i
             n == IF first THEN 0
                  ELSE IF was.resends < MaxResends THEN was.resends + 1 ELSE was.resends
         IN IF r.mails[1].ok
            THEN [earlier |-> IF was.latest = None THEN was.earlier
                              ELSE was.earlier \cup {was.latest},
                  latest |-> r.mails[1].code, resends |-> n]
            ELSE [was EXCEPT !.resends = n]
    ELSE i

\* 0: no case submitted; 1: STAGE_1 seen since the last case submission; 2: then
\* AWAITING_ISSUES; 3: then STAGE_2; 4: then AWAITING_ASPECTS
NextTrail(t, op, r, u) ==
    LET s == Persisted(r.db, u) IN
    IF op = "receive_case" /\ r.ret = Ret(STAGE_1)
    THEN (IF s = "STAGE_1" THEN 1 ELSE 0)
    ELSE IF t = 1 /\ s = "AWAITING_ISSUES" THEN 2
    ELSE IF t = 2 /\ s = "STAGE_2" THEN 3
    ELSE IF t = 3 /\ s = "AWAITING_ASPECTS" THEN 4
    ELSE t

\* the turns the user and the model exchanged since the user last entered the stage the
\* session is in (through receive_case, receive_issues or receive_aspects); none while
\* the session is in no stage
NextExchanged(e, handler, r, u, message) ==
    IF Persisted(r.db, u) \notin {"STAGE_1", "STAGE_2", "STAGE_3"} THEN <<>>
    ELSE IF /\ handler \in {"receive_case", "receive_issues", "receive_aspects"}
            /\ r.ret \in {Ret(STAGE_1), Ret(STAGE_2), Ret(STAGE_3)}
    THEN <<>>
    ELSE IF r.calls = <<>> THEN e
    ELSE e \o <<Turn("user", Strip(message.text))>>
           \o (IF r.replies # <<>> /\ r.replies[1].msg = "response"
               THEN <<Turn("assistant", r.replies[1].text)>> ELSE <<>>)

\* the update is handled: op is the registered handler, handler the function that did
\* the work, routed whether the ConversationHandler ran it
Handled(turns, u, c, op, handler, routed, message, stream, r) ==
    /\ \A x \in DOMAIN r.history : Len(r.history[x]) <= turns
    /\ db' = r.db
    /\ conversation_history' = r.history
    /\ conversations' =
           IF routed THEN UpdateState(conversations, <<c, u>>, r.ret) ELSE conversations
    /\ shown' = [shown EXCEPT ![c] = @ \cup r.buttons]
    /\ last' = [op |-> op, handler |-> handler, user |-> u, chat |-> c,
                message |-> message, stream |-> stream, ret |-> r.ret,
                writes |-> r.writes, mails |-> r.mails, calls |-> r.calls,
                replies |-> r.replies]
    /\ issued' = [issued EXCEPT ![u] = NextIssued(@, op, r, u)]
    /\ trail' = [trail EXCEPT ![u] = NextTrail(@, op, r, u)]
    /\ exchanged' = [exchanged EXCEPT ![u] = NextExchanged(@, handler, r, u, message)]
    /\ UNCHANGED store_up

\* no handler touches the update queue; it runs from start to end on the event loop
Idle == [user |-> "none", chat |-> "none", command |-> "none", text |-> None]

HandleWithin(turns, u, c, op, handler, routed, message, stream, r) ==
    /\ Handled(turns, u, c, op, handler, routed, message, stream, r)
    /\ UNCHANGED <<update_queue, running, generator>>

Handle(u, c, op, handler, routed, message, stream, r) ==
    HandleWithin(MaxTurns, u, c, op, handler, routed, message, stream, r)

Init ==
    /\ db = EmptyMap
    /\ conversation_history = EmptyMap
    /\ conversations = EmptyMap
    /\ shown = [c \in Chats |-> {}]
    /\ store_up = TRUE
    /\ last = [op |-> "none", handler |-> "none", user |-> "u1", chat |-> MainChat,
               message |-> NoMessage, stream |-> NoStream, ret |-> RetNone, writes |-> 0,
               mails |-> <<>>, calls |-> <<>>, replies |-> <<>>]
    /\ issued = [u \in Accounts |-> NoCodes]
    /\ trail = [u \in Accounts |-> 0]
    /\ exchanged = [u \in Accounts |-> IF u \in DOMAIN conversation_history
                                        THEN conversation_history[u] ELSE <<>>]
    /\ update_queue = <<>>
    /\ running = Idle
    /\ generator = NotCalled

\* CommandHandler("delete", delete_user), outside the ConversationHandler
Delete(u, c) ==
    Handle(u, c, "delete_user", "delete_user", FALSE, NoMessage, NoStream,
           delete_user(db, conversation_history, store_up, u))

\* entry points, also matched in every state (allow_reentry=True)
Start(u, c) ==
    Handle(u, c, "start", "start", TRUE, NoMessage, NoStream,
           start(db, conversation_history, store_up, u))

Menu(u, c) ==
    Handle(u, c, "send_main_menu", "send_main_menu", TRUE, NoMessage, NoStream,
           send_main_menu(db, conversation_history, store_up, u))

Register(u, c) ==
    /\ "register" \in shown[c]
    /\ Handle(u, c, "register", "register", TRUE, NoMessage, NoStream,
              register(db, conversation_history, store_up, u))

CancelRegistration(u, c) ==
    /\ Pressed(c, u, "cancel_registration")
    /\ Handle(u, c, "cancel_registration", "cancel_registration", TRUE, NoMessage,
              NoStream, cancel_registration(db, conversation_history, store_up, u))

ResendVerification(u, c) ==
    /\ Pressed(c, u, "resend_verification")
    /\ \E code \in generate_verification_code(CodeLength), mail_ok \in BOOLEAN :
           Handle(u, c, "resend_verification", "resend_verification", TRUE, NoMessage,
                  NoStream,
                  resend_verification(db, conversation_history, store_up, u, code, mail_ok))

GoToFirstStage(u, c) ==
    /\ Pressed(c, u, "start_stage_1")
    /\ Handle(u, c, "go_to_first_stage", "go_to_first_stage", TRUE, NoMessage, NoStream,
              go_to_first_stage(db, conversation_history, store_up, u))

GoToSecondStage(u, c) ==
    /\ Pressed(c, u, "start_stage_2")
    /\ Handle(u, c, "go_to_second_stage", "go_to_second_stage", TRUE, NoMessage, NoStream,
              go_to_second_stage(db, conversation_history, store_up, u))

GoToThirdStage(u, c) ==
    /\ Pressed(c, u, "start_stage_3")
    /\ Handle(u, c, "go_to_third_stage", "go_to_third_stage", TRUE, NoMessage, NoStream,
              go_to_third_stage(db, conversation_history, store_up, u))

ReceiveEmailOf(u, c, texts, codes) ==
    /\ RoutedText(<<c, u>>) = "receive_email"
    /\ \E text \in texts, code \in codes, mail_ok \in BOOLEAN :
           Handle(u, c, "receive_email", "receive_email", TRUE, TextMessage(text), NoStream,
                  receive_email(db, conversation_history, store_up, u, text, code, mail_ok))

ReceiveEmail(u, c) ==
    ReceiveEmailOf(u, c, EmailTexts, generate_verification_code(CodeLength))

VerifyCodeOf(u, c, texts) ==
    /\ RoutedText(<<c, u>>) = "verify_code"
    /\ \E text \in texts :
           Handle(u, c, "verify_code", "verify_code", TRUE, TextMessage(text), NoStream,
                  verify_code(db, conversation_history, store_up, u, text))

VerifyCode(u, c) == VerifyCodeOf(u, c, CodeTexts)

\* (filters.TEXT | filters.Document.ALL) & ~filters.COMMAND in AWAITING_CASE
ReceiveCaseOf(u, c, messages) ==
    /\ RoutedText(<<c, u>>) = "receive_case"
    /\ \E message \in messages :
           Handle(u, c, "receive_case", "receive_case", TRUE, message, NoStream,
                  receive_case(db, conversation_history, store_up, u, message))

ReceiveCase(u, c) ==
    ReceiveCaseOf(u, c, {TextMessage(t) : t \in CaseTexts} \cup Documents)

\* the case is typed, never uploaded
TypeCase(u, c) == ReceiveCaseOf(u, c, {TextMessage(t) : t \in CaseTexts})

ReceiveIssues(u, c) ==
    /\ RoutedText(<<c, u>>) = "receive_issues"
    /\ \E text \in IssuesTexts :
           Handle(u, c, "receive_issues", "receive_issues", TRUE, TextMessage(text),
                  NoStream, receive_issues(db, conversation_history, store_up, u, text))

ReceiveAspects(u, c) ==
    /\ RoutedText(<<c, u>>) = "receive_aspects"
    /\ \E text \in AspectsTexts :
           Handle(u, c, "receive_aspects", "receive_aspects", TRUE, TextMessage(text),
                  NoStream, receive_aspects(db, conversation_history, store_up, u, text))

StageOneConversationOf(u, c, texts, streams) ==
    /\ RoutedText(<<c, u>>) = "stage_one_conversation"
    /\ \E text \in texts, stream \in streams :
           Handle(u, c, "stage_one_conversation", "stage_one_conversation", TRUE,
                  TextMessage(text), stream,
                  stage_one_conversation(db, conversation_history, store_up, u, text, stream))

StageOneConversation(u, c) == StageOneConversationOf(u, c, StageTexts, Streams)

StageTwoConversation(u, c) ==
    /\ RoutedText(<<c, u>>) = "stage_two_conversation"
    /\ \E text \in StageTexts, stream \in Streams :
           Handle(u, c, "stage_two_conversation", "stage_two_conversation", TRUE,
                  TextMessage(text), stream,
                  stage_two_conversation(db, conversation_history, store_up, u, text, stream))

\* a text no handler of the ConversationHandler takes (no state, or STARTED, VERIFIED
\* and STAGE_3, which register no MessageHandler) falls to global_message_handler
GlobalMessageHandler(u, c) ==
    /\ RoutedText(<<c, u>>) = "none"
    /\ \E text \in StageTexts,
          stream \in IF GlobalTarget(db, store_up, u)
                            \in {"stage_one_conversation", "stage_two_conversation",
                                 "stage_three_conversation"}
                     THEN Streams ELSE {NoStream} :
           Handle(u, c, "global_message_handler", GlobalTarget(db, store_up, u), FALSE,
                  TextMessage(text), stream,
                  global_message_handler(db, conversation_history, store_up, u, text, stream))

\* every update user u can send in chat c
Step(u, c) ==
    \/ Delete(u, c)
    \/ Start(u, c)
    \/ Menu(u, c)
    \/ Register(u, c)
    \/ CancelRegistration(u, c)
    \/ ResendVerification(u, c)
    \/ GoToFirstStage(u, c)
    \/ GoToSecondStage(u, c)
    \/ GoToThirdStage(u, c)
    \/ ReceiveEmail(u, c)
    \/ VerifyCode(u, c)
    \/ ReceiveCase(u, c)
    \/ ReceiveIssues(u, c)
    \/ ReceiveAspects(u, c)
    \/ StageOneConversation(u, c)
    \/ StageTwoConversation(u, c)
    \/ GlobalMessageHandler(u, c)

\* the user talks to the bot in the private chat only
Next == \E u \in Users : Step(u, MainChat)

Spec == Init /\ [][Next]_vars

\* The user also meets the bot in a second chat (a group the bot is a member of):
\* ConversationHandler keys its state by (chat, user), the store by user alone.  In
\* the private chat they register and work up to stage 2, in the group they open the
\* menu and submit a case; cases are typed.  Every behaviour of SpecChats is one the
\* bot has with both chats open.
MainStep(u, c) ==
    \/ Start(u, c)
    \/ Menu(u, c)
    \/ Register(u, c)
    \/ ReceiveEmail(u, c)
    \/ VerifyCode(u, c)
    \/ GoToFirstStage(u, c)
    \/ GoToSecondStage(u, c)
    \/ TypeCase(u, c)
    \/ ReceiveIssues(u, c)

SideStep(u, c) ==
    \/ Start(u, c)
    \/ Menu(u, c)
    \/ GoToFirstStage(u, c)
    \/ TypeCase(u, c)

NextChats == \E u \in Users : MainStep(u, MainChat) \/ SideStep(u, SideChat)

SpecChats == Init /\ [][NextChats]_vars

(***************************************************************************)
(* The drivers of bot/handlers.py, run on a session that is in a stage:    *)
(* the texts of the stages before it are on record, the routing state is   *)
(* the persisted one and user_data holds no conversation_history yet.      *)
(***************************************************************************)
InStage(n) ==
    [email |-> <<"s">> \o STUDENT_EHU, verification_code |-> [i \in 1..CodeLength |-> "0"],
     conversation_state |-> StageName(n), case_data |-> <<"c">>,
     issues |-> IF n >= 2 THEN <<"i">> ELSE <<>>,
     aspects |-> IF n >= 3 THEN <<"p">> ELSE <<>>]

InitBot ==
    \E n \in 1..3 :
        /\ db = [u \in Users |-> InStage(n)]
        /\ conversation_history = EmptyMap
        /\ conversations = [key \in {MainChat} \X Users |-> StageConst(n)]
        /\ shown = [c \in Chats |-> {}]
        /\ store_up = TRUE
        /\ last = [op |-> "none", handler |-> "none", user |-> "u1", chat |-> MainChat,
                   message |-> NoMessage, stream |-> NoStream, ret |-> RetNone,
                   writes |-> 0, mails |-> <<>>, calls |-> <<>>, replies |-> <<>>]
        /\ issued = [u \in Accounts |-> NoCodes]
        /\ trail = [u \in Accounts |-> IF u \in Users THEN 2 * n - 1 ELSE 0]
        /\ exchanged = [u \in Accounts |-> IF u \in DOMAIN conversation_history
                                            THEN conversation_history[u] ELSE <<>>]
        /\ update_queue = <<>>
        /\ running = Idle
        /\ generator = NotCalled

RoutedTo(key, s) == InConversation(key) /\ conversations[key] = s

BotStageOneConversation(u, c) ==
    /\ RoutedTo(<<c, u>>, STAGE_1)
    /\ \E text \in StageTexts, stream \in Streams :
           HandleWithin(SeedTurns + MaxTurns, u, c, "bot.stage_one_conversation",
                        "stage_one_conversation", TRUE, TextMessage(text), stream,
                        bot_stage_one_conversation(db, conversation_history, store_up, u,
                                                   text, stream))

BotStageTwoConversation(u, c) ==
    /\ RoutedTo(<<c, u>>, STAGE_2)
    /\ \E text \in StageTexts, stream \in Streams :
           HandleWithin(SeedTurns + MaxTurns, u, c, "bot.stage_two_conversation",
                        "stage_two_conversation", TRUE, TextMessage(text), stream,
                        bot_stage_two_conversation(db, conversation_history, store_up, u,
                                                   text, stream))

BotStageThreeConversation(u, c) ==
    /\ RoutedTo(<<c, u>>, STAGE_3)
    /\ \E text \in StageTexts, stream \in Streams :
           HandleWithin(SeedTurns + MaxTurns, u, c, "bot.stage_three_conversation",
                        "stage_three_conversation", TRUE, TextMessage(text), stream,
                        bot_stage_three_conversation(db, conversation_history, store_up, u,
                                                     text, stream))

NextBot ==
    \E u \in Users :
        \/ BotStageOneConversation(u, MainChat)
        \/ BotStageTwoConversation(u, MainChat)
        \/ BotStageThreeConversation(u, MainChat)

SpecBot == InitBot /\ [][NextBot]_vars

(***************************************************************************)
(* Telegram may refuse a message: update.message.reply_text then raises.   *)
(* response tells whether the model's answer is delivered, notice whether  *)
(* the bot's own notices (empty input, wrong stage, errors) are.           *)
(***************************************************************************)
Telegram == [response : BOOLEAN, notice : BOOLEAN]

\* a driver whose reply_text calls may raise: the answer is sent after the assistant
\* turn is appended, inside the try block, so a refusal lands in `except Exception`,
\* which sends the error notice; a refused notice raises out of the handler, and the
\* ConversationHandler keeps the state of the key
stage_conversation_replying(n, d, h, up, u, text, stream, telegram) ==
    LET r == stage_conversation(n, d, h, up, u, text, stream)
        answer == r.replies # <<>> /\ r.replies[1].msg = "response"
    IN IF answer /\ telegram.response THEN r
       ELSE IF answer /\ telegram.notice
       THEN [r EXCEPT !.replies = <<Msg("processing_error")>>]
       ELSE IF telegram.notice THEN r
       ELSE [r EXCEPT !.replies = <<>>, !.ret = RetNone]

\* a text handled by the driver of stage n: through the ConversationHandler in STAGE_1
\* and STAGE_2, through global_message_handler in STAGE_3
StageConversationReplying(u, c, n) ==
    /\ RoutedTo(<<c, u>>, StageConst(n))
    /\ \E text \in StageTexts, stream \in Streams, telegram \in Telegram :
           Handle(u, c,
                  IF n = 3 THEN "global_message_handler" ELSE StateHandler(StageName(n)),
                  StateHandler(StageName(n)), n # 3, TextMessage(text), stream,
                  stage_conversation_replying(n, db, conversation_history, store_up, u,
                                              text, stream, telegram))

NextSend == \E u \in Users, n \in 1..3 : StageConversationReplying(u, MainChat, n)

\* a session in STAGE_n with an empty dialogue context
InitSend == InitBot

SpecSend == InitSend /\ [][NextSend]_vars

(***************************************************************************)
(* The session store may be out of reach for a while: every call of        *)
(* database_support then raises inside its try block, which prints the     *)
(* error and returns (None for the getters).                               *)
(***************************************************************************)
Outage(up) ==
    /\ store_up # up
    /\ store_up' = up
    /\ last' = [op |-> IF up THEN "store_back" ELSE "store_down", handler |-> "none",
                user |-> last.user, chat |-> last.chat, message |-> NoMessage,
                stream |-> NoStream, ret |-> RetNone, writes |-> 0, mails |-> <<>>,
                calls |-> <<>>, replies |-> <<>>]
    /\ UNCHANGED <<db, conversation_history, conversations, shown, issued, trail,
                   exchanged, update_queue, running, generator>>

StoreDown == Outage(FALSE)

StoreBack == Outage(TRUE)

OutageStep(u, c) ==
    \/ Start(u, c)
    \/ Menu(u, c)
    \/ Register(u, c)
    \/ ReceiveEmail(u, c)
    \/ VerifyCode(u, c)
    \/ GoToFirstStage(u, c)
    \/ GoToSecondStage(u, c)
    \/ TypeCase(u, c)
    \/ ReceiveIssues(u, c)

NextOutage == StoreDown \/ StoreBack \/ \E u \in Users : OutageStep(u, MainChat)

SpecOutage == Init /\ [][NextOutage]_vars

(***************************************************************************)
(* The event loop.  Application.builder()...build() leaves                 *)
(* concurrent_updates off, so the update fetcher awaits process_update for *)
(* one update before it takes the next; and the handlers call their        *)
(* collaborators synchronously (firestore get/update, yagmail send, the    *)
(* OpenAI stream iterated with a plain for), so a handler holds the loop   *)
(* from its first line to its return.  Two users, each in STAGE_1 of their *)
(* private chat, send /start and texts; a text goes to the handler the     *)
(* ConversationHandler has for the chat's state, else to                   *)
(* global_message_handler.                                                 *)
(***************************************************************************)
\* an update: the command it carries ("start", or "none" for a text message)
Incoming(u, command, text) ==
    [user |-> u, chat |-> PrivateChat(u), command |-> command, text |-> text]

\* the turns the updates of u not yet handled may add to conversation_history[u]
Owed(u) ==
    2 * (Cardinality({i \in 1..Len(update_queue) :
                         update_queue[i].user = u /\ update_queue[i].command = "none"})
         + (IF running.user = u /\ running.command = "none" THEN 1 ELSE 0))

InitLoop ==
    /\ db = [u \in Accounts |-> InStage(1)]
    /\ conversation_history = EmptyMap
    /\ conversations = [key \in {<<PrivateChat(u), u>> : u \in Accounts} |-> STAGE_1]
    /\ shown = [c \in Chats |-> {}]
    /\ store_up = TRUE
    /\ last = [op |-> "none", handler |-> "none", user |-> "u1", chat |-> MainChat,
               message |-> NoMessage, stream |-> NoStream, ret |-> RetNone, writes |-> 0,
               mails |-> <<>>, calls |-> <<>>, replies |-> <<>>]
    /\ issued = [u \in Accounts |-> NoCodes]
    /\ trail = [u \in Accounts |-> 1]
    /\ exchanged = [u \in Accounts |-> IF u \in DOMAIN conversation_history
                                        THEN conversation_history[u] ELSE <<>>]
    /\ update_queue = <<>>
    /\ running = Idle
    /\ generator = NotCalled

\* Telegram delivers an update of user u: the updater puts it on the queue
Arrive(u) ==
    /\ Len(update_queue) < MaxQueue
    /\ \E command \in {"start", "none"} :
           /\ command = "none"
                  => (IF u \in DOMAIN conversation_history
                      THEN Len(conversation_history[u]) ELSE 0) + Owed(u) + 2 <= MaxTurns
           /\ update_queue' =
                  Append(update_queue,
                         Incoming(u, command, IF command = "none" THEN <<"m">> ELSE None))
    /\ UNCHANGED <<db, conversation_history, conversations, shown, store_up, last, issued,
                   trail, exchanged, running, generator>>

\* Application._update_fetcher: with no handler on the loop, the next update is taken
\* and its handler runs up to its first call of a collaborator
Fetch ==
    /\ running = Idle
    /\ update_queue # <<>>
    /\ running' = Head(update_queue)
    /\ update_queue' = Tail(update_queue)
    /\ UNCHANGED <<db, conversation_history, conversations, shown, store_up, last, issued,
                   trail, exchanged, generator>>

\* the collaborator answers and the handler runs to its return
Return ==
    /\ running # Idle
    /\ running' = Idle
    /\ UNCHANGED <<update_queue, generator>>
    /\ LET u == running.user IN
       IF running.command = "start"
       THEN Handled(MaxTurns, u, running.chat, "start", "start", TRUE, NoMessage, NoStream,
                    start(db, conversation_history, store_up, u))
       ELSE \E stream \in Streams :
                IF RoutedText(<<running.chat, u>>) = "stage_one_conversation"
                THEN Handled(MaxTurns, u, running.chat, "stage_one_conversation",
                             "stage_one_conversation", TRUE, TextMessage(running.text),
                             stream,
                             stage_one_conversation(db, conversation_history, store_up, u,
                                                    running.text, stream))
                ELSE Handled(MaxTurns, u, running.chat, "global_message_handler",
                             GlobalTarget(db, store_up, u), FALSE,
                             TextMessage(running.text), stream,
                             global_message_handler(db, conversation_history, store_up, u,
                                                    running.text, stream))

NextLoop == Fetch \/ Return \/ \E u \in Accounts : Arrive(u)

SpecLoop == InitLoop /\ [][NextLoop]_vars

(***************************************************************************)
(* Two users, each in their private chat.  The second has a session in     *)
(* STAGE_1, talks to the model and in the end deletes the session; the     *)
(* first registers, submits a case and talks in stage 1.  The store, the   *)
(* mail dispatch and the model call may fail, and the handlers of one user *)
(* run between those of the other.                                         *)
(***************************************************************************)
InitPair ==
    /\ db = [u \in OtherUsers |-> InStage(1)]
    /\ conversation_history = EmptyMap
    /\ conversations = [key \in {<<PrivateChat(u), u>> : u \in OtherUsers} |-> STAGE_1]
    /\ shown = [c \in Chats |-> {}]
    /\ store_up = TRUE
    /\ last = [op |-> "none", handler |-> "none", user |-> "u1", chat |-> MainChat,
               message |-> NoMessage, stream |-> NoStream, ret |-> RetNone, writes |-> 0,
               mails |-> <<>>, calls |-> <<>>, replies |-> <<>>]
    /\ issued = [u \in Accounts |-> NoCodes]
    /\ trail = [u \in Accounts |-> IF u \in OtherUsers THEN 1 ELSE 0]
    /\ exchanged = [u \in Accounts |-> IF u \in DOMAIN conversation_history
                                        THEN conversation_history[u] ELSE <<>>]
    /\ update_queue = <<>>
    /\ running = Idle
    /\ generator = NotCalled

\* one sample of each input: an accepted address, the code "000000" or a wrong one, a
\* typed case, a text answered by the model or by an exception
TypeEmail(u, c) ==
    ReceiveEmailOf(u, c, {<<"s">> \o STUDENT_EHU}, {[i \in 1..CodeLength |-> "0"]})

TypeCode(u, c) == VerifyCodeOf(u, c, {[i \in 1..CodeLength |-> "0"], <<"a">>})

Talk(u, c) ==
    StageOneConversationOf(u, c, {<<"m">>},
                           {Stream(<<<<"r">>, <<"s">>>>, -1), Stream(<<<<"r">>, <<"s">>>>, 1)})

PairStep(u, c) ==
    \/ Start(u, c)
    \/ Menu(u, c)
    \/ Register(u, c)
    \/ TypeEmail(u, c)
    \/ TypeCode(u, c)
    \/ GoToFirstStage(u, c)
    \/ TypeCase(u, c)
    \/ Talk(u, c)

OtherStep(u, c) ==
    \/ Delete(u, c)
    \/ Talk(u, c)

NextPair ==
    \/ StoreDown
    \/ StoreBack
    \/ \E u \in Users : PairStep(u, PrivateChat(u))
    \/ \E u \in OtherUsers : OtherStep(u, PrivateChat(u))

SpecPair == InitPair /\ [][NextPair]_vars

(***************************************************************************)
(* The documents live in Firestore, where a conversation_state can be      *)
(* overwritten from outside the bot (the console, another deployment): a   *)
(* value no handler writes, or null.                                       *)
(***************************************************************************)
CorruptStates == {"UNKNOWN", NoState}

Corrupt(u) ==
    /\ Exists(db, u)
    /\ STATE_MAP(Persisted(db, u)) # <<>>
    /\ \E value \in CorruptStates : db' = Put(db, u, [conversation_state |-> value] @@ db[u])
    /\ last' = [op |-> "corrupt", handler |-> "none", user |-> u, chat |-> last.chat,
                message |-> NoMessage, stream |-> NoStream, ret |-> RetNone, writes |-> 0,
                mails |-> <<>>, calls |-> <<>>, replies |-> <<>>]
    /\ UNCHANGED <<conversation_history, conversations, shown, store_up, issued, trail,
                   exchanged, update_queue, running, generator>>

CorruptStep(u, c) ==
    \/ Delete(u, c)
    \/ Start(u, c)
    \/ Menu(u, c)
    \/ Register(u, c)
    \/ TypeEmail(u, c)
    \/ TypeCode(u, c)
    \/ GoToFirstStage(u, c)
    \/ TypeCase(u, c)
    \/ Talk(u, c)
    \/ GlobalMessageHandler(u, c)

NextCorrupt == \E u \in Users : Corrupt(u) \/ CorruptStep(u, MainChat)

SpecCorrupt == Init /\ [][NextCorrupt]_vars

(***************************************************************************)
(* generate_verification_code on its own: called with a length, the        *)
(* default included, while a session waits for its e-mail address.  Up to  *)
(* MaxLength every digit is tried at every position; a longer code is      *)
(* built from the sample digits.                                           *)
(***************************************************************************)
Lengths == 0..MaxLength \cup {CodeLength}

\* the outcomes of random.choice('0123456789') tried for the next character
Choices(g) ==
    IF g.length <= MaxLength THEN {Digits[k] : k \in 1..Len(Digits)} ELSE SampleDigits

InitCode ==
    /\ db = [u \in Users |-> [email |-> None, verification_code |-> None,
                              conversation_state |-> "AWAITING_EMAIL"]]
    /\ conversation_history = EmptyMap
    /\ conversations = [key \in {MainChat} \X Users |-> AWAITING_EMAIL]
    /\ shown = [c \in Chats |-> IF c = MainChat THEN {"register", "cancel_registration"}
                                ELSE {}]
    /\ store_up = TRUE
    /\ last = [op |-> "register", handler |-> "register", user |-> "u1", chat |-> MainChat,
               message |-> NoMessage, stream |-> NoStream, ret |-> Ret(AWAITING_EMAIL),
               writes |-> 1, mails |-> <<>>, calls |-> <<>>,
               replies |-> <<Msg("enter_email")>>]
    /\ issued = [u \in Accounts |-> NoCodes]
    /\ trail = [u \in Accounts |-> 0]
    /\ exchanged = [u \in Accounts |-> IF u \in DOMAIN conversation_history
                                        THEN conversation_history[u] ELSE <<>>]
    /\ update_queue = <<>>
    /\ running = Idle
    /\ \E length \in Lengths : generator = Called(length)

Untouched ==
    UNCHANGED <<db, conversation_history, conversations, shown, store_up, last, issued,
                trail, exchanged, update_queue, running>>

\* one more random.choice joins the string
Choice ==
    /\ ~generator.returned
    /\ MoreInRange(generator)
    /\ \E d \in Choices(generator) :
           generator' = [generator EXCEPT !.code = Append(@, d)]
    /\ Untouched

\* range(length) is exhausted: the joined string is returned
ReturnCode ==
    /\ ~generator.returned
    /\ ~MoreInRange(generator)
    /\ generator' = [generator EXCEPT !.returned = TRUE]
    /\ Untouched

\* the function is called again
CallAgain ==
    /\ generator.returned
    /\ \E length \in Lengths : generator' = Called(length)
    /\ Untouched

NextCode == Choice \/ ReturnCode \/ CallAgain

SpecCode == InitCode /\ [][NextCode]_vars

(***************************************************************************)
(* Properties.  A step's handler is last'.op; the state it ran in is the   *)
(* unprimed one.                                                           *)
(***************************************************************************)
Cleared(d, u, f) == Field(d, TRUE, u, f) \in {None, <<>>}
NoHistory(h, u) == u \notin DOMAIN h \/ h[u] = <<>>

\* C1: go_to_second_stage run while the persisted state is not STAGE_1, and
\* go_to_third_stage run while it is not STAGE_2, change no document and no dialogue
\* context and make no store write, mail dispatch or model call; run in STAGE_1
\* (resp. STAGE_2) they persist AWAITING_ISSUES (resp. AWAITING_ASPECTS).
C1_AdvanceGuard ==
    [][LET u == last'.user
           s == Persisted(db, u)
           rejected == \/ last'.op = "go_to_second_stage" /\ s # "STAGE_1"
                       \/ last'.op = "go_to_third_stage" /\ s # "STAGE_2"
       IN /\ rejected => /\ db' = db
                         /\ conversation_history' = conversation_history
                         /\ last'.writes = 0
                         /\ last'.mails = <<>>
                         /\ last'.calls = <<>>
          /\ (last'.op = "go_to_second_stage" /\ s = "STAGE_1")
                 => Persisted(db', u) = "AWAITING_ISSUES"
          /\ (last'.op = "go_to_third_stage" /\ s = "STAGE_2")
                 => Persisted(db', u) = "AWAITING_ASPECTS"]_vars

\* a 'Proceed to Stage 2' press was rejected: the session is past STAGE_1
C1_Witness ==
    /\ last.op = "go_to_second_stage"
    /\ last.ret = Ret(STAGE_1)
    /\ Persisted(db, last.user) \in {"STAGE_2", "STAGE_3"}

\* C2: the persisted state becomes STAGE_2 only if, since the most recent case
\* submission, it was STAGE_1 and then AWAITING_ISSUES; it becomes STAGE_3 only if it
\* was STAGE_2 and then AWAITING_ASPECTS; go_to_third_stage run in STAGE_1 leaves STAGE_1.
C2_NoStageSkipping ==
    [][LET u == last'.user IN
       /\ (Persisted(db', u) = "STAGE_2" /\ Persisted(db, u) # "STAGE_2")
              => trail[u] >= 2
       /\ (Persisted(db', u) = "STAGE_3" /\ Persisted(db, u) # "STAGE_3")
              => trail[u] >= 4
       /\ (last'.op = "go_to_third_stage" /\ Persisted(db, u) = "STAGE_1")
              => Persisted(db', u) = "STAGE_1"]_vars

\* C3: /start for a user id with no document creates one in state STARTED whose
\* email, verification_code, case_data, issues and aspects are absent or null.
C3_StartCreatesFreshSession ==
    [][(last'.op = "start" /\ ~Exists(db, last'.user))
          => /\ Exists(db', last'.user)
             /\ Persisted(db', last'.user) = "STARTED"
             /\ \A f \in {"email", "verification_code", "case_data", "issues", "aspects"} :
                    Field(db', TRUE, last'.user, f) = None]_vars

\* /start has just created a session for a user whose earlier session, which held a
\* case, was deleted
C3_Witness ==
    /\ last.op = "start"
    /\ last.writes = 1
    /\ trail[last.user] >= 1
    /\ Persisted(db, last.user) = "STARTED"

IsCode(code) ==
    /\ Len(code) = CodeLength
    /\ \A i \in 1..Len(code) : \E k \in 1..Len(Digits) : code[i] = Digits[k]

\* C4: receive_email given a valid address in AWAITING_EMAIL leaves the persisted state
\* AWAITING_VERIFICATION_CODE, the address and a 6-digit code persisted, and has
\* invoked send_email exactly once, to that address with the persisted code.
C4_ReceiveValidEmail ==
    [][LET u == last'.user
           email == Strip(last'.message.text)
       IN (last'.op = "receive_email" /\ Persisted(db, u) = "AWAITING_EMAIL"
              /\ ValidEmail(email))
          => /\ Persisted(db', u) = "AWAITING_VERIFICATION_CODE"
             /\ get_user_email(db', TRUE, u) = email
             /\ IsCode(get_verification_code(db', TRUE, u))
             /\ Len(last'.mails) = 1
             /\ last'.mails[1].to = email
             /\ last'.mails[1].code = get_verification_code(db', TRUE, u)]_vars

\* a valid address, typed with surrounding blanks, was accepted and the mail went out
C4_Witness ==
    /\ last.op = "receive_email"
    /\ last.message.text # Strip(last.message.text)
    /\ Len(last.mails) = 1
    /\ last.mails[1].ok
    /\ Persisted(db, last.user) = "AWAITING_VERIFICATION_CODE"

\* C5: verify_code given the persisted code in AWAITING_VERIFICATION_CODE persists
\* VERIFIED and leaves no verification_code on the document.
C5_VerifyClearsCode ==
    [][LET u == last'.user IN
       (last'.op = "verify_code" /\ Persisted(db, u) = "AWAITING_VERIFICATION_CODE"
           /\ Strip(last'.message.text) = get_verification_code(db, TRUE, u))
       => /\ Persisted(db', u) = "VERIFIED"
          /\ Cleared(db', u, "verification_code")]_vars

\* C6: once resend_verification has run twice or more in
\* AWAITING_VERIFICATION_CODE, every code mailed before the latest one leaves the state
\* as it is and the latest one yields VERIFIED.
C6_OnlyLatestCodeVerifies ==
    [][LET u == last'.user
           entered_code == Strip(last'.message.text)
       IN (last'.op = "verify_code" /\ Persisted(db, u) = "AWAITING_VERIFICATION_CODE"
              /\ issued[u].resends >= 2)
          => /\ entered_code \in issued[u].earlier
                    => Persisted(db', u) = "AWAITING_VERIFICATION_CODE"
             /\ entered_code = issued[u].latest => Persisted(db', u) = "VERIFIED"]_vars

\* the case a message submits: the typed text without surrounding blanks, or the text
\* extracted from a supported document; <<>> when it submits none
SubmittedCase(m) ==
    IF ~m.document THEN Strip(m.text)
    ELSE IF Supported(Lower(m.file_name)) /\ m.extract_ok THEN m.text
    ELSE <<>>

\* C7: receive_case given a non-empty case in AWAITING_CASE persists that case, leaves
\* issues and aspects cleared and the dialogue context empty, and persists STAGE_1.
C7_ReceiveCase ==
    [][LET u == last'.user
           case_text == SubmittedCase(last'.message)
       IN (last'.op = "receive_case" /\ Persisted(db, u) = "AWAITING_CASE"
              /\ case_text # <<>>)
          => /\ get_user_case_data(db', TRUE, u) = case_text
             /\ Cleared(db', u, "issues")
             /\ Cleared(db', u, "aspects")
             /\ NoHistory(conversation_history', u)
             /\ Persisted(db', u) = "STAGE_1"]_vars

\* a case submitted as a document was accepted
C7_Witness ==
    /\ last.op = "receive_case"
    /\ last.message.document
    /\ last.writes = 4
    /\ Persisted(db, last.user) = "STAGE_1"
    /\ get_user_case_data(db, TRUE, last.user) = last.message.text
    /\ Field(db, TRUE, last.user, "issues") = <<>>

\* C8: receive_issues in AWAITING_ISSUES persists the text as issues, empties the
\* dialogue context and persists STAGE_2; receive_aspects in AWAITING_ASPECTS does the
\* same with aspects and STAGE_3.
C8_ReceiveIssuesAspects ==
    [][LET u == last'.user
           text == Strip(last'.message.text)
       IN /\ (last'.op = "receive_issues" /\ Persisted(db, u) = "AWAITING_ISSUES")
                => /\ get_user_issues(db', TRUE, u) = text
                   /\ NoHistory(conversation_history', u)
                   /\ Persisted(db', u) = "STAGE_2"
          /\ (last'.op = "receive_aspects" /\ Persisted(db, u) = "AWAITING_ASPECTS")
                => /\ get_user_aspects(db', TRUE, u) = text
                   /\ NoHistory(conversation_history', u)
                   /\ Persisted(db', u) = "STAGE_3"]_vars

\* aspects were submitted by a session whose issues are on record
C8_Witness ==
    /\ last.op = "receive_aspects"
    /\ Persisted(db, last.user) = "STAGE_3"
    /\ get_user_aspects(db, TRUE, last.user) = <<"p">>
    /\ get_user_issues(db, TRUE, last.user) = <<"i">>
    /\ trail[last.user] = 4

FreeText(m) == m # NoMessage /\ ~m.document /\ Strip(m.text) # <<>>
Driver(stage) ==
    CASE stage = "STAGE_1" -> "stage_one_conversation"
      [] stage = "STAGE_2" -> "stage_two_conversation"
      [] stage = "STAGE_3" -> "stage_three_conversation"

\* C9: a non-empty free-text message sent while the persisted state is STAGE_N is
\* handled by the stage-N driver, which makes a model call, and the persisted state
\* stays STAGE_N.
C9_StageTextReachesDriver ==
    [][\A stage \in Stages :
          (FreeText(last'.message) /\ Persisted(db, last'.user) = stage)
          => /\ last'.handler = Driver(stage)
             /\ Len(last'.calls) = 1
             /\ Persisted(db', last'.user) = stage]_vars

\* C10: stage_N_conversation makes a model call only if the persisted state is STAGE_N
\* and the message is non-empty once stripped; otherwise it makes none, appends
\* nothing to the dialogue context and changes nothing persisted.
C10_DriverGuard ==
    [][\A stage \in Stages :
          LET eligible == /\ Persisted(db, last'.user) = stage
                          /\ Strip(last'.message.text) # <<>>
          IN last'.handler = Driver(stage)
             => /\ last'.calls # <<>> => eligible
                /\ ~eligible => /\ last'.calls = <<>>
                                /\ conversation_history' = conversation_history
                                /\ db' = db]_vars

\* stage_one_conversation turned down a non-empty message: the session is not in STAGE_1
C10_Witness ==
    /\ last.handler = "stage_one_conversation"
    /\ Strip(last.message.text) # <<>>
    /\ last.calls = <<>>
    /\ Persisted(db, last.user) # "STAGE_1"

Drivers == {Driver(stage) : stage \in Stages}
Raised(stream) == stream.raises >= 0 /\ stream.raises <= Len(stream.fragments)
History(h, u) == IF u \in DOMAIN h THEN h[u] ELSE <<>>
AssistantTurns(h, u) ==
    Cardinality({i \in 1..Len(History(h, u)) : History(h, u)[i].role = "assistant"})

\* C11: when the stream of a model call made for a STAGE_N message ends and its
\* fragments concatenate to a text that is empty once stripped, no assistant turn is
\* appended, the user gets a failure message and the persisted state stays STAGE_N.
C11_EmptyResponse ==
    [][\A stage \in Stages :
          (/\ last'.handler = Driver(stage)
           /\ Persisted(db, last'.user) = stage
           /\ last'.calls # <<>>
           /\ ~Raised(last'.stream)
           /\ Strip(Concat(last'.stream.fragments)) = <<>>)
          => /\ AssistantTurns(conversation_history', last'.user)
                    = AssistantTurns(conversation_history, last'.user)
             /\ last'.replies = <<Msg("format_error")>>
             /\ Persisted(db', last'.user) = stage]_vars

\* in STAGE_3 the model answered a message with blanks only
C11_Witness ==
    /\ last.handler = "stage_three_conversation"
    /\ last.calls # <<>>
    /\ ~Raised(last.stream)
    /\ Concat(last.stream.fragments) = <<" ">>
    /\ last.replies = <<Msg("format_error")>>
    /\ Persisted(db, last.user) = "STAGE_3"

\* C12: when the model call made for a STAGE_N message fails (create() raises, or the
\* stream raises after some fragments), the driver still returns STAGE_N, no response
\* is delivered, and the user's dialogue context is what it was before the message.
C12_NoAppendOnFailure ==
    [][\A stage \in Stages :
          (/\ last'.handler = Driver(stage)
           /\ Persisted(db, last'.user) = stage
           /\ last'.calls # <<>>
           /\ Raised(last'.stream))
          => /\ last'.ret = STATE_MAP(stage)
             /\ \A i \in 1..Len(last'.replies) : last'.replies[i].msg # "response"
             /\ History(conversation_history', last'.user)
                    = History(conversation_history, last'.user)]_vars

\* C13: when the model answers a STAGE_N message with a response that is not empty
\* once stripped, the context ends with the user turn and then one new assistant turn
\* holding the fragments concatenated in arrival order, and both the persisted state
\* and the state the driver returns are STAGE_N; for the drivers of
\* handlers/conversation.py and of bot/handlers.py.
C13_ResponseAppended ==
    [][\A stage \in Stages :
          LET u == last'.user
              H == History(conversation_history', u)
          IN (/\ last'.handler = Driver(stage)
              /\ Persisted(db, u) = stage
              /\ last'.calls # <<>>
              /\ ~Raised(last'.stream)
              /\ Strip(Concat(last'.stream.fragments)) # <<>>)
             => /\ Len(H) >= 2
                /\ H[Len(H) - 1] = Turn("user", Strip(last'.message.text))
                /\ H[Len(H)] = Turn("assistant", Concat(last'.stream.fragments))
                /\ AssistantTurns(conversation_history', u)
                       = AssistantTurns(conversation_history, u) + 1
                /\ Persisted(db', u) = stage
                /\ last'.ret = STATE_MAP(stage)]_vars

\* the system instruction and the persisted texts a request of the stage starts with
Instruction(stage) ==
    CASE stage = "STAGE_1" -> <<"SYSTEM_PROMPT_FIRST">>
      [] stage = "STAGE_2" -> <<"SYSTEM_PROMPT_SECOND">>
      [] stage = "STAGE_3" -> <<"SYSTEM_PROMPT_THIRD">>
Opening(d, u, stage) ==
    <<Turn("system", Instruction(stage)), Turn("user", Field(d, TRUE, u, "case_data"))>>
        \o (IF stage \in {"STAGE_2", "STAGE_3"}
            THEN <<Turn("user", Field(d, TRUE, u, "issues"))>> ELSE <<>>)
        \o (IF stage = "STAGE_3"
            THEN <<Turn("user", Field(d, TRUE, u, "aspects"))>> ELSE <<>>)

\* C14: a model request of the stage-N driver is the stage-N system instruction, the
\* persisted case, the persisted issues (N >= 2), the persisted aspects (N = 3), the
\* turns of the dialogue context in order and last the new user input; the context
\* holds turns of the current stage only: it is empty whenever a stage is entered and
\* grows only by the driver of the persisted stage.
C14_RequestSequence ==
    [][LET u == last'.user
           before == History(conversation_history, u)
           after == History(conversation_history', u)
       IN /\ \A stage \in Stages :
                 (last'.handler = Driver(stage) /\ last'.calls # <<>>)
                 => /\ Len(last'.calls) = 1
                    /\ Persisted(db, u) = stage
                    /\ last'.calls[1] = Opening(db, u, stage) \o before
                                            \o <<Turn("user", Strip(last'.message.text))>>
          /\ (Persisted(db', u) \in Stages /\ Persisted(db', u) # Persisted(db, u))
                 => after = <<>>
          /\ (after # before /\ after # <<>>)
                 => /\ Persisted(db, u) \in Stages
                    /\ last'.handler = Driver(Persisted(db, u))
                    /\ Persisted(db', u) = Persisted(db, u)]_vars

\* a STAGE_3 request that carries an earlier turn of the stage before the new input
C14_Witness ==
    /\ last.handler = "stage_three_conversation"
    /\ last.calls # <<>>
    /\ Len(last.calls[1]) >= 6
    /\ last.calls[1][3] = Turn("user", <<"i">>)
    /\ last.calls[1][4] = Turn("user", <<"p">>)

\* C15: /delete, in any state, leaves the invoking user without a document and without
\* dialogue context, and confirms the deletion, also when there was no document.
C15_DeleteDestroysAll ==
    [][last'.op = "delete_user"
          => /\ ~Exists(db', last'.user)
             /\ NoHistory(conversation_history', last'.user)
             /\ last'.replies = <<Msg("data_deleted")>>]_vars

StateChanging ==
    {"register", "receive_email", "verify_code", "go_to_first_stage", "go_to_second_stage",
     "go_to_third_stage", "receive_case", "receive_issues", "receive_aspects"}
Success ==
    {"enter_email", "code_sent", "email_verified", "enter_case", "enter_issues",
     "enter_aspects", "case_received", "issues_received", "aspects_received"}

\* C16: when the store write of a state-changing handler fails, the document is as it
\* was, the handler sends no success message and the routing state of the chat does
\* not advance: it stays as it was or the conversation ends.
C16_FailedWriteNotReported ==
    [][LET key == <<last'.chat, last'.user>> IN
       (last'.op \in StateChanging /\ last'.writes > 0 /\ ~store_up)
       => /\ db' = db
          /\ \A i \in 1..Len(last'.replies) : last'.replies[i].msg \notin Success
          /\ \/ conversations' = conversations
             \/ key \notin DOMAIN conversations']_vars

\* C17: cancel_registration run while the persisted state is STARTED, AWAITING_EMAIL or
\* AWAITING_VERIFICATION_CODE persists STARTED and leaves email, verification_code,
\* case_data, issues and aspects cleared.
C17_CancelClears ==
    [][(last'.op = "cancel_registration" /\ Persisted(db, last'.user) \in Registration)
          => /\ Persisted(db', last'.user) = "STARTED"
             /\ \A f \in {"email", "verification_code", "case_data", "issues", "aspects"} :
                    Cleared(db', last'.user, f)]_vars

\* a registration begun again by a user who had submitted a case was cancelled
C17_Witness ==
    /\ last.op = "cancel_registration"
    /\ trail[last.user] >= 1
    /\ Persisted(db, last.user) = "STARTED"
    /\ DOMAIN db[last.user] = {"conversation_state"}

\* C18: in every reachable state, a document holds a verification_code only if its
\* conversation_state is AWAITING_VERIFICATION_CODE.
C18_CodeOnlyWhileAwaiting ==
    \A u \in DOMAIN db :
        Field(db, TRUE, u, "verification_code") # None
            => Persisted(db, u) = "AWAITING_VERIFICATION_CODE"

\* C19: in every reachable state, a document holds a non-empty issues text only if its
\* conversation_state is STAGE_2, AWAITING_ASPECTS or STAGE_3, and a non-empty aspects
\* text only if it is STAGE_3.
C19_IssuesAspectsOnlyLater ==
    \A u \in DOMAIN db :
        /\ ~Cleared(db, u, "issues")
               => Persisted(db, u) \in {"STAGE_2", "AWAITING_ASPECTS", "STAGE_3"}
        /\ ~Cleared(db, u, "aspects") => Persisted(db, u) = "STAGE_3"

\* C20: in every reachable state, every document has a conversation_state and it is
\* one of the ten state names.
C20_StateDefined ==
    \A u \in DOMAIN db :
        /\ "conversation_state" \in DOMAIN db[u]
        /\ \E i \in 1..Len(StateNames) : db[u].conversation_state = StateNames[i]

\* a session that went through every handler writing a state, up to STAGE_3, and was
\* then sent back to STARTED by cancel_registration
C20_Witness ==
    /\ last.op = "cancel_registration"
    /\ trail[last.user] = 4
    /\ Exists(db, last.user)
    /\ Persisted(db, last.user) = "STARTED"

\* C21: a document exists for a user exactly when the user has sent /start since their
\* last /delete: there is none at first, only /start creates one and /start always
\* leaves one, only /delete removes one and /delete always leaves none; no other
\* handler creates a document, also when a stale button or message triggers it after
\* /delete.
C21_SessionIffStarted ==
    [][LET u == last'.user IN
       /\ (~Exists(db, u) /\ Exists(db', u)) => last'.op = "start"
       /\ last'.op = "start" => Exists(db', u)
       /\ (Exists(db, u) /\ ~Exists(db', u)) => last'.op = "delete_user"
       /\ last'.op = "delete_user" => ~Exists(db', u)
       /\ \A x \in Accounts \ {u} : Exists(db', x) <=> Exists(db, x)]_vars

\* the Register button of an earlier session was pressed after /delete
C21_Witness ==
    /\ last.op = "register"
    /\ last.writes = 1
    /\ trail[last.user] >= 1
    /\ ~Exists(db, last.user)

\* C22: the case, issues and aspects texts submitted in sequence through receive_case,
\* receive_issues and receive_aspects are read back from the store exactly as submitted,
\* surrounding whitespace included: each handler that accepts a text persists it as it
\* was sent, and the later ones leave the texts persisted before them as they are.
C22_RoundTrip ==
    [][LET u == last'.user
           text == last'.message.text
       IN /\ (last'.op = "receive_case" /\ last'.ret = Ret(STAGE_1) /\ Exists(db, u))
                 => get_user_case_data(db', TRUE, u) = text
          /\ (last'.op = "receive_issues" /\ last'.ret = Ret(STAGE_2) /\ Exists(db, u))
                 => /\ get_user_issues(db', TRUE, u) = text
                    /\ get_user_case_data(db', TRUE, u) = get_user_case_data(db, TRUE, u)
          /\ (last'.op = "receive_aspects" /\ last'.ret = Ret(STAGE_3) /\ Exists(db, u))
                 => /\ get_user_aspects(db', TRUE, u) = text
                    /\ get_user_issues(db', TRUE, u) = get_user_issues(db, TRUE, u)
                    /\ get_user_case_data(db', TRUE, u) = get_user_case_data(db, TRUE, u)]_vars

\* C23: while the handler of one user waits on a store call, a mail dispatch or the
\* model call, an update of a different user is not held back: when it is the next on
\* the queue, the application can take it and run its handler.
C23_NotBlocked ==
    (/\ running # Idle
     /\ update_queue # <<>>
     /\ Head(update_queue).user # running.user) => ENABLED Fetch

\* C24: handling an update of one user, also one whose store call, mail dispatch or
\* model call fails, leaves the document of every other user (its existence and every
\* field) and every other user's dialogue context as they were.
C24_Isolation ==
    [][\A b \in Accounts \ {last'.user} :
           /\ Exists(db', b) <=> Exists(db, b)
           /\ Exists(db, b) => db'[b] = db[b]
           /\ (b \in DOMAIN conversation_history') <=> (b \in DOMAIN conversation_history)
           /\ b \in DOMAIN conversation_history
                  => conversation_history'[b] = conversation_history[b]]_vars

\* a handler of one user has just failed in a collaborator (the model call raised, the
\* mail was not sent, or the store was down for its write) while another user has a
\* case on record and a dialogue under way
C24_Witness ==
    /\ \/ last.calls # <<>> /\ Raised(last.stream)
       \/ last.mails # <<>> /\ ~last.mails[1].ok
       \/ last.writes > 0 /\ ~store_up
    /\ \E b \in Accounts \ {last.user} :
           /\ Persisted(db, b) = "STAGE_1"
           /\ ~NoHistory(conversation_history, b)

\* C25: receive_email given an address (the text without surrounding blanks) that ends
\* with neither '@ehu.lt' nor '@student.ehu.lt', and verify_code given a code (the
\* text without surrounding blanks) that is not the persisted one, leave the persisted
\* conversation_state, email and verification_code as they were and dispatch no mail.
C25_RejectedInputChangesNothing ==
    [][LET u == last'.user
           entered == Strip(last'.message.text)
           rejected == \/ last'.op = "receive_email" /\ ~ValidEmail(entered)
                       \/ /\ last'.op = "verify_code"
                          /\ entered # get_verification_code(db, TRUE, u)
       IN rejected
          => /\ Exists(db', u) <=> Exists(db, u)
             /\ \A f \in {"conversation_state", "email", "verification_code"} :
                    Field(db', TRUE, u, f) = Field(db, TRUE, u, f)
             /\ last'.mails = <<>>]_vars

\* a well-formed code that is not the one on record was rejected
C25_Witness ==
    /\ last.op = "verify_code"
    /\ IsCode(Strip(last.message.text))
    /\ IsCode(get_verification_code(db, TRUE, last.user))
    /\ Strip(last.message.text) # get_verification_code(db, TRUE, last.user)
    /\ Persisted(db, last.user) = "AWAITING_VERIFICATION_CODE"

\* C26: when the mail dispatch of receive_email has failed after the code was persisted,
\* the persisted code is still the generated one and remains usable: the text the user
\* sends next goes to verify_code (so that the code yields VERIFIED), and a press of
\* the resend button is handled by resend_verification.
C26_RetryAfterMailFailure ==
    LET u == last.user
        key == <<last.chat, last.user>>
    IN (/\ last.op = "receive_email"
        /\ last.mails # <<>>
        /\ ~last.mails[1].ok
        /\ Persisted(db, u) = "AWAITING_VERIFICATION_CODE")
       => /\ get_verification_code(db, TRUE, u) = last.mails[1].code
          /\ RoutedText(key) = "verify_code"
          /\ InConversation(key)
          /\ "resend_verification" \in Callbacks(conversations[key])

\* C27: when the persisted conversation_state is a value outside the ten state names,
\* /start and the handling of a free text report an error to the user, invoke no state
\* handler (no other message is sent, no collaborator is called) and leave the
\* document, its conversation_state included, and the dialogue context as they were.
C27_UnknownStateSurfaced ==
    [][LET u == last'.user IN
       (/\ last'.op \in {"start", "global_message_handler"}
        /\ Exists(db, u)
        /\ STATE_MAP(Persisted(db, u)) = <<>>)
       => /\ last'.replies # <<>>
          /\ \A i \in 1..Len(last'.replies) :
                 last'.replies[i].msg \in {"unexpected_state", "error"}
          /\ last'.writes = 0
          /\ last'.mails = <<>>
          /\ last'.calls = <<>>
          /\ db' = db
          /\ conversation_history' = conversation_history]_vars

\* /start was answered with the error for a session in stage 1 whose state had been
\* overwritten with an unknown value
C27_Witness ==
    /\ last.op = "start"
    /\ Persisted(db, last.user) = "UNKNOWN"
    /\ trail[last.user] >= 1
    /\ last.replies = <<Msg("unexpected_state")>>

\* C28: every call of generate_verification_code(length) returns a string of exactly
\* length characters (6 by default), each a decimal digit 0-9, and the call reads and
\* writes nothing of the store, the dialogue contexts or the conversations.
C28_CodeFormat ==
    /\ [](generator.returned
            => /\ Len(generator.code) = generator.length
               /\ \A i \in 1..Len(generator.code) :
                      \E k \in 1..Len(Digits) : generator.code[i] = Digits[k])
    /\ [][generator' # generator
              => UNCHANGED <<db, conversation_history, conversations, shown, store_up,
                             issued, trail, exchanged>>]_vars

\* a call with the default length has returned a code of two different digits
C28_Witness ==
    /\ generator.returned
    /\ generator.length = CodeLength
    /\ Len(generator.code) = CodeLength
    /\ generator.code[1] # generator.code[CodeLength]

\* C29: when go_to_second_stage or go_to_third_stage rejects an advance, the state it
\* returns to the ConversationHandler is the user's persisted conversation_state, and
\* the routing state of the chat, hence the handler of the user's next update, is the
\* one it was before the press.
C29_RejectedAdvanceKeepsRouting ==
    [][LET u == last'.user
           s == Persisted(db, u)
           rejected == \/ last'.op = "go_to_second_stage" /\ s # "STAGE_1"
                       \/ last'.op = "go_to_third_stage" /\ s # "STAGE_2"
       IN rejected => /\ last'.ret = STATE_MAP(s)
                      /\ conversations' = conversations]_vars

\* C30: a cancel_registration press received while the persisted state is VERIFIED,
\* AWAITING_CASE, STAGE_1, AWAITING_ISSUES, STAGE_2, AWAITING_ASPECTS or STAGE_3 leaves
\* the persisted conversation_state and the email, case_data, issues and aspects
\* fields as they were.
C30_CancelAfterRegistrationIgnored ==
    [][LET u == last'.user IN
       (last'.op = "cancel_registration"
           /\ Persisted(db, u) \in {"VERIFIED", "AWAITING_CASE", "STAGE_1", "AWAITING_ISSUES",
                                    "STAGE_2", "AWAITING_ASPECTS", "STAGE_3"})
       => /\ Persisted(db', u) = Persisted(db, u)
          /\ \A f \in {"email", "case_data", "issues", "aspects"} :
                 Field(db', TRUE, u, f) = Field(db, TRUE, u, f)]_vars

\* C31: a press of the Register button persists AWAITING_EMAIL when the persisted
\* state is STARTED; received in any other state it leaves the persisted
\* conversation_state as it was.
C31_RegisterOnlyFromStarted ==
    [][LET u == last'.user IN
       last'.op = "register"
       => IF Persisted(db, u) = "STARTED"
          THEN Persisted(db', u) = "AWAITING_EMAIL"
          ELSE Persisted(db', u) = Persisted(db, u)]_vars

\* C32: a press of start_stage_1 persists AWAITING_CASE when the persisted state is
\* VERIFIED; handled in any other state, STAGE_1, STAGE_2 and STAGE_3 included, it leaves
\* the persisted conversation_state as it was.
C32_FirstStageOnlyFromVerified ==
    [][LET u == last'.user IN
       last'.op = "go_to_first_stage"
       => IF Persisted(db, u) = "VERIFIED"
          THEN Persisted(db', u) = "AWAITING_CASE"
          ELSE Persisted(db', u) = Persisted(db, u)]_vars

\* C33: when receive_case rejects a submission in AWAITING_CASE (unsupported document
\* type, failed extraction, empty extracted or typed text), the persisted state stays
\* AWAITING_CASE, no persisted field changes and the user's dialogue context is as it
\* was.
C33_RejectedCaseChangesNothing ==
    [][LET u == last'.user IN
       (/\ last'.op = "receive_case"
        /\ Persisted(db, u) = "AWAITING_CASE"
        /\ last'.replies \in {<<Msg("unsupported_file")>>, <<Msg("document_error")>>,
                              <<Msg("no_text")>>})
       => /\ Persisted(db', u) = "AWAITING_CASE"
          /\ db' = db
          /\ conversation_history' = conversation_history]_vars

\* C34: a message that is empty once surrounding whitespace is removed, sent in
\* AWAITING_ISSUES or AWAITING_ASPECTS, is rejected: the persisted state does not
\* advance to STAGE_2 / STAGE_3 and the issues and aspects fields are as they were.
C34_EmptyIssuesAspectsRejected ==
    [][LET u == last'.user IN
       (/\ last'.op \in {"receive_issues", "receive_aspects"}
        /\ Persisted(db, u) \in {"AWAITING_ISSUES", "AWAITING_ASPECTS"}
        /\ Strip(last'.message.text) = <<>>)
       => /\ Persisted(db', u) = Persisted(db, u)
          /\ get_user_issues(db', TRUE, u) = get_user_issues(db, TRUE, u)
          /\ get_user_aspects(db', TRUE, u) = get_user_aspects(db, TRUE, u)]_vars

\* C35: the dialogue part of every model request of stage N (what follows the system
\* instruction and the persisted texts) holds only the turns exchanged since the user
\* most recently entered stage N through receive_case, receive_issues or
\* receive_aspects, then the new input: no turn of an earlier stage, of an earlier case
\* or of a cancelled or deleted session is in it.
C35_OnlyTurnsOfThisVisit ==
    [][LET u == last'.user IN
       \A stage \in Stages :
           (last'.handler = Driver(stage) /\ last'.calls # <<>>)
           => LET request == last'.calls[1]
                  opening == Len(Opening(db, u, stage))
              IN SubSeq(request, opening + 1, Len(request))
                     = exchanged[u] \o <<Turn("user", Strip(last'.message.text))>>]_vars

\* a request of stage 2 or 3 that carries an exchange of the current visit before the
\* new input, made by a user who had a dialogue in the stage before
C35_Witness ==
    /\ last.handler \in {"stage_two_conversation", "stage_three_conversation"}
    /\ last.calls # <<>>
    /\ Len(exchanged[last.user]) = 3
    /\ exchanged[last.user][1].role = "user"
    /\ exchanged[last.user][2].role = "assistant"
    /\ Len(last.calls[1]) = (IF last.handler = "stage_two_conversation" THEN 3 ELSE 4) + 3

\* C36: after every handler that completes with no collaborator failure (every mail
\* dispatched, the model stream read to its end), the ConversationHandler's state for
\* the chat and user is the persisted conversation_state, and there is none exactly
\* when the user has no document.
C36_RoutingConsistency ==
    [][LET u == last'.user
           key == <<last'.chat, u>>
           failed == \/ \E i \in DOMAIN last'.mails : ~last'.mails[i].ok
                     \/ Raised(last'.stream)
       IN (vars' # vars /\ last'.handler # "none" /\ ~failed)
          => IF Exists(db', u)
             THEN /\ key \in DOMAIN conversations'
                  /\ Ret(conversations'[key]) = STATE_MAP(Persisted(db', u))
             ELSE key \notin DOMAIN conversations']_vars

\* C37: an option of the menu pressed right after send_main_menu showed it is accepted:
\* when the menu just sent for the persisted state s offers "Proceed to Stage 2"
\* (resp. "Proceed to Stage 3"), go_to_second_stage (resp. go_to_third_stage) run next
\* in that same s persists AWAITING_ISSUES (resp. AWAITING_ASPECTS).
C37_OfferedOptionAccepted ==
    [][LET u == last'.user
           offered == IF last.handler = "send_main_menu" /\ last.user = u
                         /\ last.replies = <<Msg("choose_option")>>
                      THEN MenuButtons(Persisted(db, u)) ELSE {}
       IN /\ (last'.op = "go_to_second_stage" /\ "start_stage_2" \in offered)
              => Persisted(db', u) = "AWAITING_ISSUES"
          /\ (last'.op = "go_to_third_stage" /\ "start_stage_3" \in offered)
              => Persisted(db', u) = "AWAITING_ASPECTS"]_vars

\* C38: /start does not strand a session: a non-empty text sent right after /start by a
\* user whose persisted state is AWAITING_CASE, AWAITING_ISSUES or AWAITING_ASPECTS is
\* handled by receive_case, receive_issues or receive_aspects and the persisted state
\* becomes STAGE_1, STAGE_2 or STAGE_3.
C38_StartDoesNotStrand ==
    [][LET u == last'.user
           s == Persisted(db, u)
       IN (/\ last.op = "start" /\ last.user = u /\ last.chat = last'.chat
           /\ s \in {"AWAITING_CASE", "AWAITING_ISSUES", "AWAITING_ASPECTS"}
           /\ FreeText(last'.message))
          => /\ last'.handler = (CASE s = "AWAITING_CASE" -> "receive_case"
                                  [] s = "AWAITING_ISSUES" -> "receive_issues"
                                  [] s = "AWAITING_ASPECTS" -> "receive_aspects")
             /\ Persisted(db', u) = (CASE s = "AWAITING_CASE" -> "STAGE_1"
                                     [] s = "AWAITING_ISSUES" -> "STAGE_2"
                                     [] s = "AWAITING_ASPECTS" -> "STAGE_3")]_vars

\* C39: an assistant turn is appended to the dialogue context only if the response was
\* delivered: when the model call succeeded and the reply could not be sent, the
\* context gains no assistant turn and the user receives at most the error message.
C39_AssistantTurnOnlyIfDelivered ==
    [][LET u == last'.user
           appended == AssistantTurns(conversation_history', u)
                           - AssistantTurns(conversation_history, u)
           answered == /\ last'.calls # <<>>
                       /\ ~Raised(last'.stream)
                       /\ ~EmptyResponse(Concat(last'.stream.fragments))
           delivered == /\ last'.replies # <<>>
                        /\ last'.replies[1].msg = "response"
       IN /\ appended > 0 => delivered
          /\ (answered /\ ~delivered)
                 => /\ appended = 0
                    /\ last'.replies \in {<<>>, <<Msg("processing_error")>>}]_vars

\* C40: verification cannot be bypassed: a session that is not verified (no document,
\* STARTED, AWAITING_EMAIL, AWAITING_VERIFICATION_CODE, as after creation, cancel or
\* the register button) reaches VERIFIED or a later state only by verify_code accepting
\* a text equal to the persisted verification code; no other update, stale buttons and
\* re-entries included, takes it to AWAITING_CASE or a stage.
C40_NoVerificationBypass ==
    [][LET u == last'.user
           Verified == {"VERIFIED", "AWAITING_CASE", "STAGE_1", "AWAITING_ISSUES", "STAGE_2",
                        "AWAITING_ASPECTS", "STAGE_3"}
       IN (Persisted(db', u) \in Verified /\ Persisted(db, u) \notin Verified)
          => /\ last'.op = "verify_code"
             /\ Persisted(db, u) = "AWAITING_VERIFICATION_CODE"
             /\ Strip(last'.message.text) = get_verification_code(db, TRUE, u)]_vars

====
